---- MODULE Spec2Model ----
(***************************************************************************)
(* Vehicle ledger, transaction log and sale fulfilment workflow of the     *)
(* vehicle tracking system (services/stock_service.py,                     *)
(* services/sales_service.py, inventory_manager.py, models.py).            *)
(*                                                                         *)
(* The three tables are the state.  Every service function is an operator  *)
(* that takes the rows a session reads and returns the session's unit of   *)
(* work (changed columns, pending inserts, return value); Flush applies a  *)
(* unit of work to the committed tables as db.commit() does.  Spec runs    *)
(* each call in one step; ConcSpec lets two sessions read and commit in    *)
(* separate steps.                                                         *)
(***************************************************************************)
EXTENDS Integers, Sequences, FiniteSets, TLC

VARIABLES vehicles, sales, txns, today, calls, ret, sess, feed, scanned, out

vars == <<vehicles, sales, txns, today, calls, ret, sess, feed, scanned, out>>

(* ------------------------------ bounds --------------------------------- *)
MaxBatch == 2
MaxTxns == 5
MaxDay == 2
MaxRows == 3
MaxCalls == 3
MaxAge == 95

(* --------------------------- value domains ----------------------------- *)
NULL == "NULL"
NoId == 0

Chassis == {"C1", "C2"}
Branches == {"B1", "B2"}
SaleIds == {1, 2}
SaleArgs == {1, 2, 3}
Sessions == {1, 2}
Days == 1..MaxDay

INWARD_OEM == "HMSI"
INWARD_TRANSFER == "INWARD"
OUTWARD_TRANSFER == "OUTWARD"
SALE == "Sale"
STOCK_CORRECTION == "STOCK CORRECTION"

(* str.upper() on the model and variant names in use *)
Upper(s) ==
    CASE s = "m1" -> "M1"
      [] s = "v1" -> "V1"
      [] OTHER -> s

(* rows of an uploaded batch: chassis_no, engine_no, model, variant, color *)
(* and load_reference (set by the feed decoder; a CSV row has no such key, *)
(* modelled as NULL)                                                       *)
Item(c, e, m, v, col, l) ==
    [chassis_no |-> c, engine_no |-> e, model |-> m, variant |-> v,
     color |-> col, load_reference |-> l]

Items ==
    { Item("C1", "E1", "M1", "V1", "RED", "L1"),
      Item("C2", NULL, "m1", "v1", "RED", "L1"),
      Item("C2", NULL, "M2", "V1", "RED", "L2"),
      Item("C2", NULL, "M1", "V2", "RED", "L1"),
      Item("C2", NULL, "M1", "V1", "BLUE", "L1") }

SeqsUpTo(S, n) == UNION { [1..k -> S] : k \in 1..n }

(* batches: every single row, and longer batches that start with chassis   *)
(* C1 and go on with rows of the other chassis or with the first row again *)
Batches ==
    { b \in SeqsUpTo(Items, MaxBatch) :
        Len(b) >= 2 => /\ b[1].chassis_no = "C1"
                       /\ \A k \in 2..Len(b) : b[k].chassis_no = "C2" \/ b[k] = b[1] }

(* a CSV row: the same columns without the load_reference key *)
CsvRow(item) == [item EXCEPT !.load_reference = NULL]

ChassisLists ==
    { l \in SeqsUpTo(Chassis \cup {"C9"}, MaxBatch) :
        Len(l) >= 2 => l[1] = "C1" /\ \A k \in 3..Len(l) : l[k] = "C2" }
Loads == {"L1", "L2"}
Mechanics == {"mech1", "mech2"}
Engines == {NULL, "E7"}

(* ----------------------------- helpers --------------------------------- *)
(* Query.first() over the row numbers that pass the filter: the first    *)
(* one, 0 for None                                                        *)
First(hits) ==
    IF hits = {} THEN 0 ELSE CHOOSE i \in hits : \A j \in hits : i <= j

(* the rows of a table that pass a filter on chassis_no *)
ByChassis(rows, c) == { i \in 1..Len(rows) : rows[i].chassis_no = c }

(* columns of a loaded object whose value differs from the loaded one: the *)
(* SET clause of the UPDATE the session emits for it                       *)
Changed(old, new) ==
    LET cols == { f \in DOMAIN old : new[f] # old[f] }
    IN [f \in cols |-> new[f]]

(* UPDATE ... SET <changed columns> WHERE id = <pk> *)
Merge(row, upd) ==
    [f \in DOMAIN row |-> IF f \in DOMAIN upd THEN upd[f] ELSE row[f]]

VDiff(snapV, memV) ==
    LET dirty == { i \in 1..Len(snapV) : memV[i] # snapV[i] }
    IN [i \in dirty |-> Changed(snapV[i], memV[i])]

SDiff(snapS, memS) ==
    LET dirty == { i \in DOMAIN snapS : memS[i] # snapS[i] }
    IN [i \in dirty |-> Changed(snapS[i], memS[i])]

NoUpd == [i \in {} |-> 0]

(* a unit of work: return value plus what the session holds for commit *)
Work(ok, msg, raised, vupd, supd, ins, tx) ==
    [ok |-> ok, msg |-> msg, raised |-> raised,
     vupd |-> vupd, supd |-> supd, ins |-> ins, tx |-> tx]

(* db.rollback(): nothing of the session reaches the tables *)
Rollback(ok, msg, raised) == Work(ok, msg, raised, NoUpd, NoUpd, <<>>, <<>>)

DB(v, s, t) == [v |-> v, s |-> s, t |-> t]

(* a chassis_no column without its unique index *)
UniqueChassis_Off(rows, ins) == TRUE

(* unique=True on VehicleMaster.chassis_no, checked by the storage engine   *)
(* when the INSERTs of a flush arrive                                       *)
UniqueChassis(rows, ins) ==
    /\ \A i \in 1..Len(ins) : \A j \in 1..Len(rows) :
          ins[i].chassis_no # rows[j].chassis_no
    /\ \A i, j \in 1..Len(ins) :
          i # j => ins[i].chassis_no # ins[j].chassis_no

(* a flush that keeps in the log only the rows of the unit of work in hand *)
Flush_LogReplaced(db, w) ==
    DB([i \in 1..Len(db.v) |->
            IF i \in DOMAIN w.vupd THEN Merge(db.v[i], w.vupd[i]) ELSE db.v[i]]
          \o w.ins,
       [i \in DOMAIN db.s |->
            IF i \in DOMAIN w.supd THEN Merge(db.s[i], w.supd[i]) ELSE db.s[i]],
       IF w.tx = <<>> THEN db.t ELSE w.tx)

(* db.commit(): flush the unit of work w against the committed tables db   *)
Flush(db, w) ==
    DB([i \in 1..Len(db.v) |->
            IF i \in DOMAIN w.vupd THEN Merge(db.v[i], w.vupd[i]) ELSE db.v[i]]
          \o w.ins,
       [i \in DOMAIN db.s |->
            IF i \in DOMAIN w.supd THEN Merge(db.s[i], w.supd[i]) ELSE db.s[i]],
       db.t \o w.tx)

(* --------------------------- stock_service ----------------------------- *)
VehicleRow(item, ref_no, initial_status, date_val, branch) ==
    [chassis_no |-> item.chassis_no, engine_no |-> item.engine_no,
     load_reference_number |-> ref_no,
     model |-> item.model, variant |-> item.variant, color |-> item.color,
     status |-> initial_status, date_received |-> date_val,
     current_branch_id |-> branch, sale_id |-> NoId, dc_number |-> NULL]

Txn(date, type, source, from, cur, to, m, v, col, load, remarks) ==
    [Date |-> date, Transaction_Type |-> type, Source_External |-> source,
     From_Branch_ID |-> from, Current_Branch_ID |-> cur, To_Branch_ID |-> to,
     Model |-> m, Variant |-> v, Color |-> col, Quantity |-> 1,
     Load_Number |-> load, Remarks |-> remarks]

(* a log row for every inserted vehicle, whatever its status *)
InwardLog_Always(initial_status, row) == <<row>>

(* "if initial_status == 'In Stock': db.add(InventoryTransaction(...))" *)
InwardLog(initial_status, row) ==
    IF initial_status = "In Stock" THEN <<row>> ELSE <<>>

RECURSIVE inward_loop(_, _, _, _, _, _, _, _, _)
inward_loop(batch, k, branch, source, load_no, date_val, remarks, initial_status, acc) ==
    IF k > Len(batch) THEN acc
    ELSE LET item == batch[k]
             ref_no == IF item.load_reference # NULL THEN item.load_reference
                       ELSE load_no
             row == VehicleRow(item, ref_no, initial_status, date_val, branch)
             log == InwardLog(initial_status,
                              Txn(date_val, INWARD_OEM, source, NULL, branch, NULL,
                                  item.model, item.variant, item.color, ref_no,
                                  remarks))
         IN inward_loop(batch, k + 1, branch, source, load_no, date_val, remarks,
                        initial_status,
                        [ins |-> Append(acc.ins, row), tx |-> acc.tx \o log])

log_bulk_inward_master(db, current_branch_id, source, load_no, date_val, remarks, vehicle_batch, initial_status) ==
    LET acc == inward_loop(vehicle_batch, 1, current_branch_id, source, load_no,
                           date_val, remarks, initial_status,
                           [ins |-> <<>>, tx |-> <<>>])
    IN Work(TRUE, "ok", FALSE, NoUpd, NoUpd, acc.ins, acc.tx)

(* inventory_manager.log_bulk_inward_master: no initial_status parameter,  *)
(* every vehicle In Stock, load_reference_number = load_no, one log row    *)
RECURSIVE mgr_inward_loop(_, _, _, _, _, _, _, _)
mgr_inward_loop(batch, k, branch, source, load_no, date_val, remarks, acc) ==
    IF k > Len(batch) THEN acc
    ELSE LET item == batch[k]
             row == VehicleRow(item, load_no, "In Stock", date_val, branch)
             log == Txn(date_val, INWARD_OEM, source, NULL, branch, NULL,
                        item.model, item.variant, item.color, load_no, remarks)
         IN mgr_inward_loop(batch, k + 1, branch, source, load_no, date_val, remarks,
                            [ins |-> Append(acc.ins, row), tx |-> Append(acc.tx, log)])

mgr_log_bulk_inward_master(db, current_branch_id, source, load_no, date_val, remarks, vehicle_batch) ==
    LET acc == mgr_inward_loop(vehicle_batch, 1, current_branch_id, source, load_no,
                               date_val, remarks, [ins |-> <<>>, tx |-> <<>>])
    IN Work(TRUE, "ok", FALSE, NoUpd, NoUpd, acc.ins, acc.tx)

(* the two rows of one transfer ("Double Entry Logging") *)
TransferRows(date_val, from, to, veh, remarks, in_text) ==
    << Txn(date_val, OUTWARD_TRANSFER, NULL, NULL, from, to,
           veh.model, veh.variant, veh.color, NULL,
           <<"Transfer OUT to", to, remarks>>),
       Txn(date_val, INWARD_TRANSFER, NULL, from, to, NULL,
           veh.model, veh.variant, veh.color, NULL,
           <<in_text, from, remarks>>) >>

(* a filter that ignores the status column *)
TransferFilter_AnyStatus(r, c, from) ==
    /\ r.chassis_no = c
    /\ r.current_branch_id = from

(* the filter of the vehicle query of log_bulk_transfer_master *)
TransferFilter(r, c, from) ==
    /\ r.chassis_no = c
    /\ r.current_branch_id = from
    /\ r.status = "In Stock"

(* acc.mem: the session's loaded objects; the filter of each query runs    *)
(* against db.v, the rows as stored (autoflush=False)                      *)
RECURSIVE transfer_loop(_, _, _, _, _, _, _, _)
transfer_loop(db, list, k, from, to, date_val, remarks, acc) ==
    IF k > Len(list) THEN acc
    ELSE LET c == list[k]
             i == First({ n \in 1..Len(db.v) : TransferFilter(db.v[n], c, from) })
         IN IF i = 0 THEN [acc EXCEPT !.failed = TRUE]
            ELSE LET veh == [acc.mem[i] EXCEPT !.current_branch_id = to,
                                               !.dc_number = remarks]
                 IN transfer_loop(db, list, k + 1, from, to, date_val, remarks,
                      [acc EXCEPT !.mem = [acc.mem EXCEPT ![i] = veh],
                                  !.tx = acc.tx \o TransferRows(date_val, from, to,
                                              veh, remarks, "Transfer IN from")])

(* a transfer whose except branch commits what the loop has done so far *)
log_bulk_transfer_master_Partial(db, from_branch_id, to_branch_id, date_val, remarks, chassis_list) ==
    LET acc == transfer_loop(db, chassis_list, 1, from_branch_id, to_branch_id,
                             date_val, remarks,
                             [mem |-> db.v, tx |-> <<>>, failed |-> FALSE])
    IN Work(~acc.failed, IF acc.failed THEN "not found/available" ELSE "ok",
            acc.failed, VDiff(db.v, acc.mem), NoUpd, <<>>, acc.tx)

log_bulk_transfer_master(db, from_branch_id, to_branch_id, date_val, remarks, chassis_list) ==
    LET acc == transfer_loop(db, chassis_list, 1, from_branch_id, to_branch_id,
                             date_val, remarks,
                             [mem |-> db.v, tx |-> <<>>, failed |-> FALSE])
    IN IF acc.failed THEN Rollback(FALSE, "not found/available", TRUE)
       ELSE Work(TRUE, "ok", FALSE, VDiff(db.v, acc.mem), NoUpd, <<>>, acc.tx)

(* inventory_manager.log_transfer: one chassis *)
log_transfer(db, from_id, to_id, chassis_no, dt, rem) ==
    LET i == First(ByChassis(db.v, chassis_no))
    IN IF i = 0 THEN Rollback(FALSE, "not found", TRUE)
       ELSE IF db.v[i].status # "In Stock" THEN Rollback(FALSE, "not In Stock", TRUE)
       ELSE IF db.v[i].current_branch_id # from_id
            THEN Rollback(FALSE, "not at branch", TRUE)
       ELSE LET veh == [db.v[i] EXCEPT !.current_branch_id = to_id]
            IN Work(TRUE, "ok", FALSE, VDiff(db.v, [db.v EXCEPT ![i] = veh]),
                    NoUpd, <<>>,
                    TransferRows(dt, from_id, to_id, veh, rem, "Auto-transfer IN from"))

(* a correction row: chassis_no (NULL when missing or empty) and           *)
(* current_branch_id (NULL when the key is absent)                         *)
RECURSIVE correct_loop(_, _, _, _, _, _)
correct_loop(db, batch, k, correction_date, cutoff_date, acc) ==
    IF k > Len(batch) THEN acc
    ELSE LET item == batch[k]
             i == First(ByChassis(db.v, item.chassis_no))
             rest(a) == correct_loop(db, batch, k + 1, correction_date, cutoff_date, a)
         IN IF item.chassis_no = NULL
            THEN rest([acc EXCEPT !.log = Append(acc.log, <<"missing", NULL>>)])
            ELSE IF i = 0
            THEN rest([acc EXCEPT !.log = Append(acc.log, <<"not found", item.chassis_no>>)])
            ELSE LET veh == acc.mem[i]
                     recent == { n \in 1..Len(db.t) :
                                  /\ db.t[n].Date >= cutoff_date
                                  /\ db.t[n].Transaction_Type \in {INWARD_TRANSFER, OUTWARD_TRANSFER}
                                  /\ db.t[n].Current_Branch_ID = veh.current_branch_id
                                  /\ db.t[n].Model = veh.model
                                  /\ db.t[n].Variant = veh.variant }
                 IN IF First(recent) # 0
                    THEN rest([acc EXCEPT !.skip_count = acc.skip_count + 1,
                                          !.log = Append(acc.log, <<"recent transfer", item.chassis_no>>)])
                    ELSE IF veh.status \in {"Sold", "Allotted"}
                    THEN rest([acc EXCEPT !.log = Append(acc.log, <<"status", item.chassis_no>>)])
                    ELSE LET original_branch_id == veh.current_branch_id
                             new_branch == IF item.current_branch_id # NULL
                                           THEN item.current_branch_id
                                           ELSE veh.current_branch_id
                             upd == [veh EXCEPT !.current_branch_id = new_branch]
                         IN rest([acc EXCEPT
                                   !.mem = [acc.mem EXCEPT ![i] = upd],
                                   !.update_count = acc.update_count + 1,
                                   !.tx = Append(acc.tx,
                                        Txn(correction_date, STOCK_CORRECTION, NULL,
                                            original_branch_id, new_branch, NULL,
                                            upd.model, upd.variant, upd.color, NULL,
                                            <<"Data Correction", original_branch_id>>))])

(* a correction that gives up the whole batch when a row is skipped *)
bulk_correct_stock_Atomic(db, update_batch, correction_date, cutoff_date) ==
    LET acc == correct_loop(db, update_batch, 1, correction_date, cutoff_date,
                   [mem |-> db.v, tx |-> <<>>, skip_count |-> 0,
                    update_count |-> 0, log |-> <<>>])
    IN (IF acc.log # <<>> THEN Rollback(FALSE, "FATAL", FALSE)
        ELSE Work(TRUE, "Success", FALSE, VDiff(db.v, acc.mem), NoUpd, <<>>, acc.tx))
       @@ [update_count |-> acc.update_count, skip_count |-> acc.skip_count,
           error_log |-> acc.log]

(* a correction that writes no audit transaction *)
bulk_correct_stock_NoAudit(db, update_batch, correction_date, cutoff_date) ==
    LET acc == correct_loop(db, update_batch, 1, correction_date, cutoff_date,
                   [mem |-> db.v, tx |-> <<>>, skip_count |-> 0,
                    update_count |-> 0, log |-> <<>>])
    IN Work(TRUE, "Success", FALSE, VDiff(db.v, acc.mem), NoUpd, <<>>, <<>>)
       @@ [update_count |-> acc.update_count, skip_count |-> acc.skip_count,
           error_log |-> acc.log]

bulk_correct_stock(db, update_batch, correction_date, cutoff_date) ==
    LET acc == correct_loop(db, update_batch, 1, correction_date, cutoff_date,
                   [mem |-> db.v, tx |-> <<>>, skip_count |-> 0,
                    update_count |-> 0, log |-> <<>>])
    IN Work(TRUE, "Success", FALSE, VDiff(db.v, acc.mem), NoUpd, <<>>, acc.tx)
       @@ [update_count |-> acc.update_count, skip_count |-> acc.skip_count,
           error_log |-> acc.log]

(* a filter that ignores the status column *)
ReceiveFilter_AnyStatus(r, branch_id, load_reference) ==
    /\ r.current_branch_id = branch_id
    /\ r.load_reference_number = load_reference

(* the filter of the vehicle query of receive_load *)
ReceiveFilter(r, branch_id, load_reference) ==
    /\ r.current_branch_id = branch_id
    /\ r.load_reference_number = load_reference
    /\ r.status = "In Transit"

(* a receipt that keeps the date of the import *)
Received_KeepDate(r, day) == [r EXCEPT !.status = "In Stock"]

(* "v.status = 'In Stock'; v.date_received = today" *)
Received(r, day) == [r EXCEPT !.status = "In Stock", !.date_received = day]

receive_load(db, branch_id, load_reference, day) ==
    LET found == { i \in 1..Len(db.v) : ReceiveFilter(db.v[i], branch_id, load_reference) }
        mem == [i \in 1..Len(db.v) |->
                  IF i \in found THEN Received(db.v[i], day) ELSE db.v[i]]
        Row(i) == Txn(day, INWARD_OEM, "HMSI (Transit Received)", NULL, branch_id,
                      NULL, db.v[i].model, db.v[i].variant, db.v[i].color,
                      load_reference, <<"Received Load", load_reference>>)
        RECURSIVE rows(_)
        rows(i) == IF i > Len(db.v) THEN <<>>
                   ELSE (IF i \in found THEN <<Row(i)>> ELSE <<>>) \o rows(i + 1)
    IN IF found = {} THEN Rollback(FALSE, "No In Transit vehicles", FALSE)
       ELSE Work(TRUE, "received", FALSE, VDiff(db.v, mem), NoUpd, <<>>, rows(1))

RECURSIVE manual_sale_loop(_, _, _, _, _, _)
manual_sale_loop(db, list, k, sale_date, remarks, acc) ==
    IF k > Len(list) THEN acc
    ELSE LET c == list[k]
             i == First(ByChassis(db.v, c))
         IN IF i = 0 THEN [acc EXCEPT !.failed = "not found"]
            ELSE IF acc.mem[i].status = "Sold" THEN [acc EXCEPT !.failed = "already Sold"]
            ELSE LET veh == [acc.mem[i] EXCEPT !.status = "Sold"]
                 IN manual_sale_loop(db, list, k + 1, sale_date, remarks,
                      [acc EXCEPT !.mem = [acc.mem EXCEPT ![i] = veh],
                                  !.tx = Append(acc.tx,
                                      Txn(sale_date, SALE, NULL, NULL,
                                          veh.current_branch_id, NULL,
                                          veh.model, veh.variant, veh.color, NULL,
                                          <<"Manual Sub-Branch Sale", remarks>>))])

(* a sale whose except branch commits what the loop has done so far *)
log_bulk_manual_sub_branch_sale_Partial(db, chassis_list, sale_date, remarks) ==
    LET acc == manual_sale_loop(db, chassis_list, 1, sale_date, remarks,
                                [mem |-> db.v, tx |-> <<>>, failed |-> "no"])
    IN Work(acc.failed = "no", IF acc.failed # "no" THEN acc.failed ELSE "ok", FALSE,
            VDiff(db.v, acc.mem), NoUpd, <<>>, acc.tx)

log_bulk_manual_sub_branch_sale(db, chassis_list, sale_date, remarks) ==
    LET acc == manual_sale_loop(db, chassis_list, 1, sale_date, remarks,
                                [mem |-> db.v, tx |-> <<>>, failed |-> "no"])
    IN IF acc.failed # "no" THEN Rollback(FALSE, acc.failed, FALSE)
       ELSE Work(TRUE, "ok", FALSE, VDiff(db.v, acc.mem), NoUpd, <<>>, acc.tx)

(* --------------------- sales workflow (inventory_manager) -------------- *)
assign_pdi_mechanic(db, sale_id, mechanic_name) ==
    IF sale_id \in DOMAIN db.s
    THEN LET rec == [db.s[sale_id] EXCEPT !.pdi_assigned_to = mechanic_name,
                                          !.fulfillment_status = "PDI In Progress"]
         IN Work(TRUE, "None", FALSE, NoUpd,
                 SDiff(db.s, [db.s EXCEPT ![sale_id] = rec]), <<>>, <<>>)
    ELSE Rollback(TRUE, "None", FALSE)

(* step 4 of inventory_manager.complete_pdi *)
Mismatch(vehicle, record) ==
    \/ Upper(vehicle.model) # Upper(record.Model)
    \/ Upper(vehicle.variant) # Upper(record.Variant)
    \/ vehicle.color # record.Paint_Color

(* "vehicle.engine_no if engine_no else vehicle.engine_no" *)
mgr_engine_no(vehicle, engine_no) ==
    IF engine_no # NULL THEN vehicle.engine_no ELSE vehicle.engine_no

(* "vehicle.engine_no if not engine_no else engine_no" *)
svc_engine_no(vehicle, engine_no) ==
    IF engine_no = NULL THEN vehicle.engine_no ELSE engine_no

(* the link without the completion mark on the sale *)
LinkAndUpdate_NoStatus(db, sale_id, i, eng, now) ==
    LET veh == [db.v[i] EXCEPT !.status = "Allotted", !.sale_id = sale_id]
        rec == [db.s[sale_id] EXCEPT !.chassis_no = veh.chassis_no,
                                     !.engine_no = eng]
    IN Work(TRUE, "linked", FALSE,
            VDiff(db.v, [db.v EXCEPT ![i] = veh]),
            SDiff(db.s, [db.s EXCEPT ![sale_id] = rec]), <<>>, <<>>)

(* the link written on the sale only: vehicle.sale_id is left unset *)
LinkAndUpdate_NoSaleId(db, sale_id, i, eng, now) ==
    LET veh == [db.v[i] EXCEPT !.status = "Allotted"]
        rec == [db.s[sale_id] EXCEPT !.chassis_no = veh.chassis_no,
                                     !.engine_no = eng,
                                     !.fulfillment_status = "PDI Complete",
                                     !.pdi_completion_date = now]
    IN Work(TRUE, "linked", FALSE,
            VDiff(db.v, [db.v EXCEPT ![i] = veh]),
            SDiff(db.s, [db.s EXCEPT ![sale_id] = rec]), <<>>, <<>>)

(* step 5, "Link and Update", the same in both modules but for engine_no *)
LinkAndUpdate(db, sale_id, i, eng, now) ==
    LET veh == [db.v[i] EXCEPT !.status = "Allotted", !.sale_id = sale_id]
        rec == [db.s[sale_id] EXCEPT !.chassis_no = veh.chassis_no,
                                     !.engine_no = eng,
                                     !.fulfillment_status = "PDI Complete",
                                     !.pdi_completion_date = now]
    IN Work(TRUE, "linked", FALSE,
            VDiff(db.v, [db.v EXCEPT ![i] = veh]),
            SDiff(db.s, [db.s EXCEPT ![sale_id] = rec]), <<>>, <<>>)

(* a not-In-Stock branch that links the vehicle to the caller's sale *)
NotInStock_Relink(db, sale_id, i, now) ==
    LinkAndUpdate(db, sale_id, i, db.v[i].engine_no, now)

(* a not-In-Stock branch without the retry case *)
NotInStock_NoRetry(db, sale_id, i, now) ==
    Rollback(FALSE, "linked to another sale", FALSE) @@ [linked_to |-> db.v[i].sale_id]

(* the branch taken when the vehicle is not In Stock *)
NotInStock(db, sale_id, i, now) ==
    IF db.v[i].sale_id = sale_id
    THEN LET rec == [db.s[sale_id] EXCEPT !.fulfillment_status = "PDI Complete",
                                          !.pdi_completion_date = now]
         IN Work(TRUE, "already allotted", FALSE, NoUpd,
                 SDiff(db.s, [db.s EXCEPT ![sale_id] = rec]), <<>>, <<>>)
    ELSE Rollback(FALSE, "linked to another sale", FALSE)
         @@ [linked_to |-> db.v[i].sale_id]

(* a chassis failure that reads like the failure for a missing sale *)
ChassisNotFound_AsSale(chassis_no) ==
    Rollback(FALSE, "Sales Record not found", FALSE)

(* "Chassis No. '{chassis_no}' not found": the message quotes the chassis *)
ChassisNotFound(chassis_no) ==
    Rollback(FALSE, "Chassis not found", FALSE) @@ [named |-> chassis_no]

complete_pdi(db, sale_id, chassis_no, engine_no, now) ==
    LET i == First(ByChassis(db.v, chassis_no))
    IN IF sale_id \notin DOMAIN db.s THEN Rollback(FALSE, "Sales Record not found", FALSE)
       ELSE IF i = 0 THEN ChassisNotFound(chassis_no)
       ELSE IF db.v[i].status # "In Stock" THEN NotInStock(db, sale_id, i, now)
       ELSE IF Mismatch(db.v[i], db.s[sale_id]) THEN Rollback(FALSE, "Mismatch", FALSE)
       ELSE LinkAndUpdate(db, sale_id, i, mgr_engine_no(db.v[i], engine_no), now)

(* services/sales_service.complete_pdi: no model/variant/colour check *)
sales_service_complete_pdi(db, sale_id, chassis_no, engine_no, now) ==
    LET i == First(ByChassis(db.v, chassis_no))
    IN IF sale_id \notin DOMAIN db.s THEN Rollback(FALSE, "Sales Record not found", FALSE)
       ELSE IF i = 0 THEN ChassisNotFound(chassis_no)
       ELSE IF db.v[i].status # "In Stock" THEN NotInStock(db, sale_id, i, now)
       ELSE LinkAndUpdate(db, sale_id, i, svc_engine_no(db.v[i], engine_no), now)

(* updates: a dictionary, here a function from keys to values; hasattr is  *)
(* true of every column of the record                                      *)
update_insurance_tr_status(db, sale_id, updates) ==
    IF sale_id \notin DOMAIN db.s THEN Rollback(TRUE, "None", FALSE)
    ELSE LET old == db.s[sale_id]
             set == [f \in DOMAIN old |->
                       IF f \in DOMAIN updates THEN updates[f] ELSE old[f]]
             rec == IF set.is_tr_done = TRUE
                    THEN [set EXCEPT !.fulfillment_status = "TR Done"]
                    ELSE IF set.is_insurance_done = TRUE
                    THEN [set EXCEPT !.fulfillment_status = "Insurance Done"]
                    ELSE set
             i == First({ n \in 1..Len(db.v) : db.v[n].sale_id = sale_id })
             mem == IF set.is_tr_done # TRUE /\ set.is_insurance_done = TRUE /\ i # 0
                    THEN [db.v EXCEPT ![i].status = "Sold"]
                    ELSE db.v
         IN Work(TRUE, "None", FALSE, VDiff(db.v, mem),
                 SDiff(db.s, [db.s EXCEPT ![sale_id] = rec]), <<>>, <<>>)

(* ------------------------ email_import_service ------------------------ *)
(* A feed file is the sequence of its lines (content.splitlines()), a line *)
(* a sequence of characters.  Text gives the string a character sequence  *)
(* spells, Chars the characters of a string.                               *)
Words == {"", "M1", "V1", "K0", "V0", "K9", "V9", "R0", "X9", "RED", "L1", "L2", "C1", "C2", "E1"}

Chars(w) ==
    CASE w = "" -> <<>>
      [] w = "M1" -> <<"M", "1">>
      [] w = "V1" -> <<"V", "1">>
      [] w = "K0" -> <<"K", "0">>
      [] w = "V0" -> <<"V", "0">>
      [] w = "K9" -> <<"K", "9">>
      [] w = "V9" -> <<"V", "9">>
      [] w = "R0" -> <<"R", "0">>
      [] w = "X9" -> <<"X", "9">>
      [] w = "RED" -> <<"R", "E", "D">>
      [] w = "L1" -> <<"L", "1">>
      [] w = "L2" -> <<"L", "2">>
      [] w = "C1" -> <<"C", "1">>
      [] w = "C2" -> <<"C", "2">>
      [] w = "E1" -> <<"E", "1">>

Text(cs) == CHOOSE w \in Words : Chars(w) = cs

Min(a, b) == IF a < b THEN a ELSE b

(* s[a:b] of Python: positions a .. b-1 counted from 0, cut at the end *)
PySlice(s, a, b) == SubSeq(s, a + 1, Min(b, Len(s)))

(* str.strip() *)
RECURSIVE LStrip(_)
LStrip(cs) == IF cs # <<>> /\ Head(cs) = " " THEN LStrip(Tail(cs)) ELSE cs

RECURSIVE RStrip(_)
RStrip(cs) ==
    IF cs # <<>> /\ cs[Len(cs)] = " " THEN RStrip(SubSeq(cs, 1, Len(cs) - 1)) ELSE cs

Strip(cs) == RStrip(LStrip(cs))

(* a test that takes the length bound one too far *)
IsRecordLine_Over180(line) == ~(Len(line) <= 180 \/ line[26] # "B")

(* "if len(line) < 180 or line[25] != 'B': continue" *)
IsRecordLine(line) == ~(Len(line) < 180 \/ line[26] # "B")

(* dict.get(key, default) *)
Get(map, key, default) == IF key \in DOMAIN map THEN map[key] ELSE default

(* a lookup that has no fallback for an unknown code pair *)
DecodeProduct_NoFallback(decoder_map, m_code, v_code) ==
    Get(decoder_map, <<m_code, v_code>>, <<"", "">>)

(* "decoder_map.get((m_code, v_code), (m_code, v_code))" *)
DecodeProduct(decoder_map, m_code, v_code) ==
    Get(decoder_map, <<m_code, v_code>>, <<m_code, v_code>>)

(* color_map: a function from codes to names, the empty one for None or {} *)
NoColorMap == [c \in {} |-> ""]

(* "if color_map: final_color = color_map.get(raw_color_code, raw_color_code)" *)
DecodeColor(color_map, raw_color_code) ==
    IF DOMAIN color_map # {}
    THEN Get(color_map, raw_color_code, raw_color_code)
    ELSE raw_color_code

RECURSIVE parse_loop(_, _, _, _, _, _)
parse_loop(content, k, source_name, decoder_map, color_map, batch) ==
    IF k > Len(content) THEN batch
    ELSE LET line == content[k]
         IN IF ~IsRecordLine(line)
            THEN parse_loop(content, k + 1, source_name, decoder_map, color_map, batch)
            ELSE LET m_code == Text(Strip(PySlice(line, 27, 38)))
                     v_code == Text(Strip(PySlice(line, 38, 45)))
                     real == DecodeProduct(decoder_map, m_code, v_code)
                     raw_color_code == Text(Strip(PySlice(line, 45, 60)))
                     rec == [source_account |-> source_name,
                             load_reference |-> Text(Strip(PySlice(line, 84, 97))),
                             chassis_no |-> Text(Strip(PySlice(line, 113, 130))),
                             engine_no |-> Text(Strip(PySlice(line, 173, 186))),
                             color |-> DecodeColor(color_map, raw_color_code),
                             model |-> real[1],
                             variant |-> real[2]]
                 IN parse_loop(content, k + 1, source_name, decoder_map, color_map,
                               Append(batch, rec))

parse_s08_content(content, source_name, decoder_map, color_map) ==
    parse_loop(content, 1, source_name, decoder_map, color_map, <<>>)

(* the load reference of the first record line, NULL for None *)
RECURSIVE peek_load_ref(_)
peek_load_ref(content) ==
    IF content = <<>> THEN NULL
    ELSE IF ~IsRecordLine(Head(content)) THEN peek_load_ref(Tail(content))
    ELSE Text(Strip(PySlice(Head(content), 84, 97)))

(* the rows of the product_mapping table, codes as stored *)
ProductMapping ==
    { [model_code |-> <<"K", "0", " ">>, variant_code |-> <<"V", "0">>,
       real_model |-> "M1", real_variant |-> "V1"] }

(* "{(m.model_code.strip(), m.variant_code.strip()): (m.real_model, ...)}" *)
DecoderMap(mappings) ==
    LET keys == { <<Text(Strip(m.model_code)), Text(Strip(m.variant_code))>> : m \in mappings }
    IN [key \in keys |->
          LET m == CHOOSE r \in mappings :
                      <<Text(Strip(r.model_code)), Text(Strip(r.variant_code))>> = key
          IN <<m.real_model, m.real_variant>>]

target_count == 5

(* the loop over the recent emails, newest first: mails[k] for k = n .. 1;  *)
(* a load whose reference is in the ledger is skipped                       *)
RECURSIVE scan_loop(_, _, _, _, _, _, _)
scan_loop(db, mails, k, acc_name, decoder_map, color_map, acc) ==
    IF k < 1 \/ acc.s08_files_found >= target_count THEN acc
    ELSE LET content == mails[k]
             first_ref == peek_load_ref(content)
             found == [acc EXCEPT !.s08_files_found = acc.s08_files_found + 1]
             exists == \E i \in 1..Len(db.v) : db.v[i].load_reference_number = first_ref
             rest(a) == scan_loop(db, mails, k - 1, acc_name, decoder_map, color_map, a)
         IN IF first_ref = NULL \/ first_ref = ""
            THEN rest([found EXCEPT !.logs = Append(found.logs, <<"No Load Ref", k>>)])
            ELSE IF exists
            THEN rest([found EXCEPT !.logs = Append(found.logs, <<"Already in DB", first_ref>>)])
            ELSE LET parsed == parse_s08_content(content, acc_name, decoder_map, color_map)
                 IN IF parsed # <<>>
                    THEN rest([found EXCEPT !.all_new_data = found.all_new_data \o parsed,
                                            !.logs = Append(found.logs, <<"Imported", first_ref>>)])
                    ELSE rest(found)

fetch_and_process_emails(db, mails, color_map) ==
    scan_loop(db, mails, Len(mails), "acct", DecoderMap(ProductMapping), color_map,
              [all_new_data |-> <<>>, logs |-> <<>>, s08_files_found |-> 0])

(* the commit of a unit of work: the flush fails on a duplicate chassis,   *)
(* the except branch rolls back and the failure is raised or returned      *)
Commit(db, w) ==
    IF UniqueChassis(db.v, w.ins)
    THEN [db |-> Flush(db, w), ok |-> w.ok, msg |-> w.msg, raised |-> w.raised]
    ELSE [db |-> db, ok |-> FALSE, msg |-> "IntegrityError", raised |-> TRUE]

(* ------------------------------ state ---------------------------------- *)
SaleRow(branch, dc, m, v, col) ==
    [Branch_ID |-> branch, DC_Number |-> dc,
     Model |-> m, Variant |-> v, Paint_Color |-> col,
     fulfillment_status |-> "PDI Pending",
     engine_no |-> NULL, chassis_no |-> NULL,
     pdi_assigned_to |-> NULL, pdi_completion_date |-> NoId,
     is_insurance_done |-> FALSE, is_tr_done |-> FALSE,
     has_double_tax |-> FALSE, has_dues |-> FALSE]

Idle == [pc |-> "idle", op |-> "none", sale_id |-> NoId, chassis_no |-> <<>>,
         w |-> Rollback(TRUE, "none", FALSE), ok |-> TRUE, msg |-> "none"]

Init ==
    /\ vehicles = <<>>
    /\ sales = [i \in SaleIds |->
                  IF i = 1 THEN SaleRow("B1", "DC1", "M1", "V1", "RED")
                  ELSE SaleRow("B1", "DC2", "m1", "V1", "RED")]
    /\ txns = <<>>
    /\ today = 1
    /\ calls = 0
    /\ ret = [op |-> "none", ok |-> TRUE, msg |-> "none", raised |-> FALSE,
              linked_to |-> NoId, named |-> NULL]
    /\ sess = [s \in Sessions |-> Idle]
    /\ feed = <<>>
    /\ scanned = <<>>
    /\ out = [op |-> "none"]

Cur == DB(vehicles, sales, txns)

HeadBranch == "B1"

(* one call made and finished in one step; op names the call in ret,       *)
(* linked_to is the sale id a conflict message of complete_pdi quotes and  *)
(* named the chassis its chassis-not-found message quotes                  *)
Run(op, w) ==
    LET c == Commit(Cur, w)
    IN /\ calls < MaxCalls
       /\ Len(c.db.v) <= MaxRows
       /\ Len(c.db.t) <= MaxTxns
       /\ calls' = calls + 1
       /\ vehicles' = c.db.v
       /\ sales' = c.db.s
       /\ txns' = c.db.t
       /\ ret' = [op |-> op, ok |-> c.ok, msg |-> c.msg, raised |-> c.raised,
                  linked_to |-> IF "linked_to" \in DOMAIN w THEN w.linked_to ELSE NoId,
                  named |-> IF "named" \in DOMAIN w THEN w.named ELSE NULL]
       /\ UNCHANGED <<today, sess, feed, scanned, out>>

Tick ==
    /\ today < MaxDay
    /\ calls < MaxCalls
    /\ today' = today + 1
    /\ calls' = calls + 1
    /\ UNCHANGED <<vehicles, sales, txns, ret, sess, feed, scanned, out>>

(* "Save to 'In Transit'" callback: decoded feed rows, no pre-check *)
SaveTransit(batch, b) ==
    Run("create_inbound",
        log_bulk_inward_master(Cur, b, "Auto-Import", "MULTI", today,
                               "Batch Import", batch, "In Transit"))

(* "Submit This Batch": the duplicate-chassis query, then the insert *)
ExistingList(rows, batch) ==
    { c \in { batch[k].chassis_no : k \in 1..Len(batch) } :
        \E i \in 1..Len(rows) : rows[i].chassis_no = c }

csv_submit(db, b, load_no, date_val, batch) ==
    IF ExistingList(db.v, batch) # {}
    THEN Rollback(FALSE, "Duplicate Chassis", FALSE)
    ELSE log_bulk_inward_master(db, b, "HMSI (OEM)", load_no, date_val, "rem",
                                [k \in 1..Len(batch) |-> CsvRow(batch[k])], "In Stock")

SubmitCsv(batch, b, load_no) ==
    Run("create_inbound", csv_submit(Cur, b, load_no, today, batch))

(* inventory_app "Submit This Batch": the manager's insert, no pre-check *)
MgrSubmitCsv(batch, b, load_no) ==
    Run("create_inbound",
        mgr_log_bulk_inward_master(Cur, b, "HMSI (OEM)", load_no, today, "rem",
                                   [k \in 1..Len(batch) |-> CsvRow(batch[k])]))

ReceiveLoad(b, l) == Run("receive_load", receive_load(Cur, b, l, today))

Transfer(from, to, list) ==
    Run("transfer", log_bulk_transfer_master(Cur, from, to, today, "R1", list))

TransferOne(from, to, c) ==
    Run("transfer", log_transfer(Cur, from, to, c, today, "R1"))

CorrectionRows ==
    { [chassis_no |-> c, current_branch_id |-> b] : c \in Chassis, b \in Branches }
        \cup { [chassis_no |-> "C9", current_branch_id |-> HeadBranch] }

(* correction files: one row for C1 or for an unknown chassis, and longer  *)
(* files whose first row names the unknown chassis or moves C1 and whose   *)
(* second row moves C2                                                     *)
CorrectionBatches ==
    { b \in SeqsUpTo(CorrectionRows, MaxBatch) :
        /\ b[1].chassis_no \in {"C1", "C9"}
        /\ Len(b) >= 2 => /\ b[1].chassis_no = "C1" => b[1].current_branch_id = "B2"
                          /\ b[2] = [chassis_no |-> "C2", current_branch_id |-> "B2"]
                          /\ \A k \in 3..Len(b) : b[k] = b[1] /\ b[k].chassis_no = "C9" }

(* a file of one row is run with the first and with the last day as cutoff *)
(* date, a longer one with the first day                                   *)
CorrectionCalls ==
    { c \in CorrectionBatches \X {1, MaxDay} : Len(c[1]) >= 2 => c[2] = 1 }

Correct(batch, cutoff) ==
    LET w == bulk_correct_stock(Cur, batch, today, cutoff)
    IN /\ Run("correct", w)
       /\ TRUE

ManualSale(list) ==
    Run("manual_sale", log_bulk_manual_sub_branch_sale(Cur, list, today, "sub"))

Assign(s, m) == Run("assign", assign_pdi_mechanic(Cur, s, m))

CompletePdi(s, c, e) == Run("complete_pdi", complete_pdi(Cur, s, c, e, today))

SvcCompletePdi(s, c, e) ==
    Run("complete_pdi", sales_service_complete_pdi(Cur, s, c, e, today))

FlagUpdates ==
    { [is_insurance_done |-> TRUE], [is_tr_done |-> TRUE],
      [is_insurance_done |-> TRUE, is_tr_done |-> TRUE] }

UpdateFlags(s, u) == Run("update_flags", update_insurance_tr_status(Cur, s, u))

CsvBatches ==
    { b \in Batches : \A k \in 2..Len(b) : b[k] \in {b[1], Item("C2", NULL, "m1", "v1", "RED", "L1")} }

(* files uploaded through inventory_app: those that start with chassis C1 *)
MgrBatches == { b \in CsvBatches : b[1].chassis_no = "C1" }

TransitBatches ==
    { b \in CsvBatches : Len(b) = 1 => b[1].model \in {"M1", "M2"} /\ b[1].color = "RED" /\ b[1].variant = "V1" }

(* arguments of complete_pdi: every sale with every chassis in the ledger,  *)
(* one call for a sale that does not exist and one for an unknown chassis  *)
PdiArgs ==
    { a \in SaleArgs \X (Chassis \cup {"C9"}) \X Engines :
        (a[1] \notin SaleIds \/ a[2] \notin Chassis)
            => a \in { <<3, "C1", NULL>>, <<1, "C9", NULL>> } }

Next ==
    \/ Tick
    \/ \E batch \in TransitBatches : SaveTransit(batch, HeadBranch)
    \/ \E batch \in CsvBatches : SubmitCsv(batch, HeadBranch, "L1")
    \/ \E batch \in MgrBatches : MgrSubmitCsv(batch, HeadBranch, "L1")
    \/ \E l \in Loads : ReceiveLoad(HeadBranch, l)
    \/ \E f \in Branches : \E t \in Branches \ {f}, l \in ChassisLists : Transfer(f, t, l)
    \/ \E f \in Branches : \E t \in Branches \ {f}, c \in Chassis \cup {"C9"} : TransferOne(f, t, c)
    \/ \E c \in CorrectionCalls : Correct(c[1], c[2])
    \/ \E l \in ChassisLists : ManualSale(l)
    \/ \E s \in SaleArgs, m \in Mechanics : Assign(s, m)
    \/ \E a \in PdiArgs : CompletePdi(a[1], a[2], a[3])
    \/ \E a \in PdiArgs : SvcCompletePdi(a[1], a[2], a[3])
    \/ \E s \in SaleArgs, u \in FlagUpdates : UpdateFlags(s, u)

Spec == Init /\ [][Next]_vars

(* ----------------------- two concurrent sessions ------------------------ *)
(* A session reads its rows when the call starts (one consistent snapshot) *)
(* and holds its unit of work until db.commit(); the UPDATEs of the flush  *)
(* are keyed by primary key and carry no version check.                    *)
Begin(s, op, sale_id, chassis_no, w) ==
    /\ sess[s].pc = "idle"
    /\ calls < MaxCalls
    /\ calls' = calls + 1
    /\ sess' = [sess EXCEPT ![s] = [pc |-> "commit", op |-> op, sale_id |-> sale_id,
                                    chassis_no |-> chassis_no, w |-> w,
                                    ok |-> w.ok, msg |-> w.msg]]
    /\ UNCHANGED <<vehicles, sales, txns, today, ret, feed, scanned, out>>

BeginSubmitCsv(s, batch) ==
    Begin(s, "create_inbound", NoId, [k \in 1..Len(batch) |-> batch[k].chassis_no],
          csv_submit(Cur, HeadBranch, "L1", today, batch))

BeginCompletePdi(s, sale_id, chassis_no) ==
    Begin(s, "complete_pdi", sale_id, <<chassis_no>>,
          complete_pdi(Cur, sale_id, chassis_no, NULL, today))

SessionCommit(s) ==
    /\ sess[s].pc = "commit"
    /\ LET c == Commit(Cur, sess[s].w)
       IN /\ vehicles' = c.db.v
          /\ sales' = c.db.s
          /\ txns' = c.db.t
          /\ sess' = [sess EXCEPT ![s].pc = "idle", ![s].ok = c.ok, ![s].msg = c.msg,
                                  ![s].w = Rollback(c.ok, c.msg, c.raised)]
    /\ UNCHANGED <<today, calls, ret, feed, scanned, out>>

BeginSaveTransit(s, batch) ==
    Begin(s, "create_inbound", NoId, [k \in 1..Len(batch) |-> batch[k].chassis_no],
          log_bulk_inward_master(Cur, HeadBranch, "Auto-Import", "MULTI", today,
                                 "Batch Import", batch, "In Transit"))

(* a transfer of one chassis from the head branch to the sub-branch *)
BeginTransfer(s, c) ==
    Begin(s, "transfer", NoId, <<c>>,
          log_bulk_transfer_master(Cur, HeadBranch, "B2", today, "R1", <<c>>))

(* "Mark Received" on a pending load of the head branch; the session keeps *)
(* the chassis numbers of the In Transit vehicles its query returned       *)
BeginReceiveLoad(s, l) ==
    LET found == { i \in 1..Len(vehicles) : ReceiveFilter(vehicles[i], HeadBranch, l) }
        RECURSIVE read(_)
        read(i) == IF i > Len(vehicles) THEN <<>>
                   ELSE (IF i \in found THEN <<vehicles[i].chassis_no>> ELSE <<>>)
                        \o read(i + 1)
    IN Begin(s, "receive_load", NoId, read(1),
             receive_load(Cur, HeadBranch, l, today))

ConcNext ==
    \/ \E s \in Sessions, batch \in CsvBatches : BeginSubmitCsv(s, batch)
    \/ \E s \in Sessions, c \in Chassis : BeginTransfer(s, c)
    \/ \E s \in Sessions, batch \in TransitBatches : BeginSaveTransit(s, batch)
    \/ \E s \in Sessions, l \in Loads : BeginReceiveLoad(s, l)
    \/ \E s \in Sessions, i \in SaleArgs, c \in Chassis \cup {"C9"} : BeginCompletePdi(s, i, c)
    \/ \E s \in Sessions : SessionCommit(s)

ConcSpec == Init /\ [][ConcNext]_vars

(* ------------------------- the OEM feed import -------------------------- *)
(* One fixed-width line of n characters: the record marker at offset 25,   *)
(* the fields at the offsets the decoder reads, blanks elsewhere.  f gives *)
(* the characters written from the start of each field.                    *)
At(cs, k) == IF k <= Len(cs) THEN cs[k] ELSE " "

Line(n, marker, f) ==
    [i \in 1..n |->
        LET p == i - 1
        IN IF p = 25 THEN marker
           ELSE IF p \in 27..37 THEN At(f.m, p - 26)
           ELSE IF p \in 38..44 THEN At(f.v, p - 37)
           ELSE IF p \in 45..59 THEN At(f.col, p - 44)
           ELSE IF p \in 84..96 THEN At(f.load, p - 83)
           ELSE IF p \in 113..129 THEN At(f.ch, p - 112)
           ELSE IF p \in 173..185 THEN At(f.eng, p - 172)
           ELSE " "]

Fields(m, v, col, load, ch, eng) ==
    [m |-> m, v |-> v, col |-> col, load |-> load, ch |-> ch, eng |-> eng]

(* C1 of load L1: a mapped product, a colour of the colour table *)
LineC1 == Fields(Chars("K0"), Chars("V0"), Chars("R0"), Chars("L1"), Chars("C1"), Chars("E1"))
(* C2 of load L1: an unknown product and colour, chassis after a blank *)
LineC2 == Fields(Chars("K9"), Chars("V9"), Chars("X9"), Chars("L1"), <<" ">> \o Chars("C2"), <<>>)
(* C2 of load L2 *)
LineC2L2 == Fields(Chars("K0"), Chars("V0"), Chars("R0"), Chars("L2"), Chars("C2"), <<>>)
Blank == Fields(<<>>, <<>>, <<>>, <<>>, <<>>, <<>>)

FeedLines ==
    [rec |-> Line(180, "B", LineC1), long |-> Line(186, "B", LineC2),
     other |-> Line(180, "B", LineC2L2), short |-> Line(179, "B", LineC2),
     header |-> Line(180, "H", LineC2L2), blank |-> Line(180, "B", Blank)]

(* attachments: a load of one or two vehicles, with header, short and      *)
(* blank lines among the records                                           *)
FeedFiles ==
    { <<FeedLines.rec>>, <<FeedLines.long>>, <<FeedLines.other>>,
      <<FeedLines.header, FeedLines.rec, FeedLines.long>>,
      <<FeedLines.rec, FeedLines.short>>,
      <<FeedLines.rec, FeedLines.blank>>,
      <<FeedLines.blank>>, <<FeedLines.header>> }

(* mailboxes: one attachment, or two of which the older one is the load     *)
(* with chassis C1: followed by another load, or sent a second time        *)
Mailboxes ==
    { <<f>> : f \in FeedFiles }
        \cup { <<<<FeedLines.rec>>, f>> : f \in { <<FeedLines.other>>, <<FeedLines.rec>>,
                                                 <<FeedLines.header>> } }

ColorTable == [c \in {"R0"} |-> "RED"]

ColorMaps == {NoColorMap, ColorTable}

FeedInit ==
    /\ vehicles = <<>>
    /\ sales = [i \in SaleIds |->
                  IF i = 1 THEN SaleRow("B1", "DC1", "M1", "V1", "RED")
                  ELSE SaleRow("B1", "DC2", "m1", "V1", "RED")]
    /\ txns = <<>>
    /\ today = 1
    /\ calls = 0
    /\ ret = [op |-> "none", ok |-> TRUE, msg |-> "none", raised |-> FALSE,
              linked_to |-> NoId, named |-> NULL]
    /\ sess = [s \in Sessions |-> Idle]
    /\ feed \in Mailboxes
    /\ scanned = <<>>
    /\ out = [op |-> "none"]

(* "Scan & Fetch New Loads": the vehicles of the scan go to the session     *)
(* state, an empty scan clears what an earlier scan left there              *)
Scan(color_map) ==
    LET r == fetch_and_process_emails(Cur, feed, color_map)
    IN /\ scanned' = r.all_new_data
       /\ ret' = [op |-> "scan", ok |-> TRUE, msg |-> r.logs, raised |-> FALSE,
                  linked_to |-> NoId, named |-> NULL]
       /\ UNCHANGED <<vehicles, sales, txns, today, calls, sess, feed, out>>

(* save_transit_callback: the scanned vehicles are saved In Transit; the   *)
(* session data is deleted after a save that did not raise                 *)
SaveScanned ==
    LET w == log_bulk_inward_master(Cur, HeadBranch, "Auto-Import", "MULTI", today,
                                    "Batch Import", scanned, "In Transit")
        c == Commit(Cur, w)
    IN /\ scanned # <<>>
       /\ calls < MaxCalls
       /\ Len(c.db.v) <= MaxRows
       /\ Len(c.db.t) <= MaxTxns
       /\ calls' = calls + 1
       /\ vehicles' = c.db.v
       /\ sales' = c.db.s
       /\ txns' = c.db.t
       /\ ret' = [op |-> "create_inbound", ok |-> c.ok, msg |-> c.msg, raised |-> c.raised,
                  linked_to |-> NoId, named |-> NULL]
       /\ scanned' = IF c.raised THEN scanned ELSE <<>>
       /\ UNCHANGED <<today, sess, feed, out>>

(* the decoder applied to attachment k of the mailbox *)
Decode(k, color_map) ==
    /\ k \in 1..Len(feed)
    /\ out' = [op |-> "decode", file |-> k, color_map |-> color_map,
               batch |-> parse_s08_content(feed[k], "acct",
                                           DecoderMap(ProductMapping), color_map)]
    /\ UNCHANGED <<vehicles, sales, txns, today, calls, ret, sess, feed, scanned>>

FeedNext ==
    \/ \E cm \in ColorMaps : Scan(cm)
    \/ SaveScanned
    \/ \E l \in Loads : ReceiveLoad(HeadBranch, l)
    \/ \E k \in DOMAIN feed, cm \in ColorMaps : Decode(k, cm)

FeedSpec == FeedInit /\ [][FeedNext]_vars

(* ------------------------- reports and queries -------------------------- *)
bins == <<0, 30, 60, 90, 9999>>

labels == <<"0-30 Days", "31-60 Days", "61-90 Days", "90+ Days (Critical)">>

(* pd.cut(x, bins, labels, right=False): the label of the interval         *)
(* [bins[i], bins[i+1]) that holds x, NULL (NaN) when none does             *)
cut(x) ==
    LET hit == { i \in 1..Len(labels) : bins[i] <= x /\ x < bins[i + 1] }
    IN IF hit = {} THEN NULL ELSE labels[CHOOSE i \in hit : TRUE]

(* the inner join with the branches table and the filters of the query;    *)
(* branch_id NULL for None                                                  *)
AgingFilter(r, branch_id) ==
    /\ r.current_branch_id \in Branches
    /\ r.status = "In Stock"
    /\ branch_id # NULL => r.current_branch_id = branch_id

get_stock_aging_report(db, branch_id, now) ==
    LET hits == SelectSeq(db.v, LAMBDA r : AgingFilter(r, branch_id))
    IN [k \in 1..Len(hits) |->
          LET Days_Old == now - hits[k].date_received
          IN [chassis_no |-> hits[k].chassis_no, model |-> hits[k].model,
              variant |-> hits[k].variant, color |-> hits[k].color,
              date_received |-> hits[k].date_received,
              Branch_Name |-> hits[k].current_branch_id,
              Days_Old |-> Days_Old, Age_Bucket |-> cut(Days_Old)]]

(* db: the branches table (its ids) and the rows of branch_hierarchy *)
get_head_branches(db) ==
    LET head_branch_ids == { h.Parent_Branch_ID : h \in db.hierarchy }
    IN { b \in db.branches : b \in head_branch_ids }

AllBranches == {"B1", "B2", "B3"}

(* branch_hierarchy: Sub_Branch_ID is the primary key, both columns are    *)
(* foreign keys into branches                                              *)
Hierarchies ==
    UNION { { { [Sub_Branch_ID |-> b, Parent_Branch_ID |-> f[b]] : b \in subs } :
                f \in [subs -> AllBranches] } : subs \in SUBSET AllBranches }

(* a ledger for the reports: two vehicles in stock, received on different  *)
(* days at different branches, and one that is sold                        *)
ReportLedger ==
    << VehicleRow(Item("C1", "E1", "M1", "V1", "RED", "L1"), "L1", "In Stock", 1, "B1"),
       VehicleRow(Item("C2", NULL, "M1", "V2", "RED", "L1"), "L1", "In Stock", 3, "B2"),
       [VehicleRow(Item("C3", NULL, "M1", "V1", "BLUE", "L2"), "L2", "Sold", 2, "B1")
           EXCEPT !.sale_id = 1] >>

ReportInit ==
    /\ vehicles = ReportLedger
    /\ sales = [i \in SaleIds |->
                  IF i = 1 THEN SaleRow("B1", "DC1", "M1", "V1", "RED")
                  ELSE SaleRow("B1", "DC2", "m1", "V1", "RED")]
    /\ txns = <<>>
    /\ today = 3
    /\ calls = 0
    /\ ret = [op |-> "none", ok |-> TRUE, msg |-> "none", raised |-> FALSE,
              linked_to |-> NoId, named |-> NULL]
    /\ sess = [s \in Sessions |-> Idle]
    /\ feed = <<>>
    /\ scanned = <<>>
    /\ out = [op |-> "none"]

(* a day passes *)
NextDay ==
    /\ today < MaxAge
    /\ today' = today + 1
    /\ UNCHANGED <<vehicles, sales, txns, calls, ret, sess, feed, scanned, out>>

AgingReport(branch_id) ==
    /\ out' = [op |-> "aging", branch_id |-> branch_id, now |-> today,
               df |-> get_stock_aging_report(Cur, branch_id, today)]
    /\ UNCHANGED <<vehicles, sales, txns, today, calls, ret, sess, feed, scanned>>

HeadBranches(hierarchy) ==
    /\ out' = [op |-> "get_head_branches", branches |-> AllBranches,
               hierarchy |-> hierarchy,
               value |-> get_head_branches([branches |-> AllBranches,
                                            hierarchy |-> hierarchy])]
    /\ UNCHANGED <<vehicles, sales, txns, today, calls, ret, sess, feed, scanned>>

ReportNext ==
    \/ NextDay
    \/ \E b \in Branches \cup {NULL} : AgingReport(b)
    \/ \E h \in Hierarchies : HeadBranches(h)

ReportSpec == ReportInit /\ [][ReportNext]_vars

(* ------------------- the sales workflow on a stocked ledger ------------- *)
(* update dictionaries of update_insurance_tr_status: the flags singly and *)
(* together, a flag cleared, keys that are other columns of the record     *)
(* (hasattr is true of them) and a key the record does not have            *)
UpdateDicts ==
    FlagUpdates \cup
    { [has_dues |-> TRUE],
      [has_double_tax |-> TRUE, has_dues |-> TRUE],
      [is_insurance_done |-> FALSE],
      [is_insurance_done |-> TRUE, DC_Number |-> "DC9"],
      [chassis_no |-> "C2"],
      [pdi_assigned_to |-> "mech2"],
      [notes |-> "x"] }

(* the ledger after "Submit This Batch" of C1 and C2 at the head branch *)
StockedLedger ==
    Commit(DB(<<>>, [i \in SaleIds |->
                       IF i = 1 THEN SaleRow("B1", "DC1", "M1", "V1", "RED")
                       ELSE SaleRow("B1", "DC2", "m1", "V1", "RED")], <<>>),
           csv_submit(DB(<<>>, <<>>, <<>>), HeadBranch, "L1", 1,
                      << Item("C1", "E1", "M1", "V1", "RED", "L1"),
                         Item("C2", NULL, "m1", "v1", "RED", "L1") >>)).db

FlagInit ==
    /\ vehicles = StockedLedger.v
    /\ sales = StockedLedger.s
    /\ txns = StockedLedger.t
    /\ today = 1
    /\ calls = 0
    /\ ret = [op |-> "none", ok |-> TRUE, msg |-> "none", raised |-> FALSE,
              linked_to |-> NoId, named |-> NULL]
    /\ sess = [s \in Sessions |-> Idle]
    /\ feed = <<>>
    /\ scanned = <<>>
    /\ out = [op |-> "none"]

FlagNext ==
    \/ \E s \in SaleArgs, m \in Mechanics : Assign(s, m)
    \/ \E a \in PdiArgs : CompletePdi(a[1], a[2], a[3])
    \/ \E s \in SaleArgs, u \in UpdateDicts : UpdateFlags(s, u)

FlagSpec == FlagInit /\ [][FlagNext]_vars

(* ======================= properties of the ledger ======================= *)
Rows == 1..Len(vehicles)

C2_OneWinner ==
    \A s1, s2 \in Sessions :
        ( /\ s1 # s2
          /\ sess[s1].pc = "idle" /\ sess[s2].pc = "idle"
          /\ sess[s1].op = "complete_pdi" /\ sess[s2].op = "complete_pdi"
          /\ sess[s1].chassis_no = sess[s2].chassis_no
          /\ sess[s1].sale_id # sess[s2].sale_id )
        => /\ ~(sess[s1].ok /\ sess[s2].ok)
           /\ sess[s1].ok =>
                 /\ \A i \in Rows : vehicles[i].chassis_no = sess[s1].chassis_no[1]
                                       => vehicles[i].sale_id = sess[s1].sale_id
                 /\ sess[s2].sale_id \in SaleIds
                       => sales[sess[s2].sale_id].chassis_no # sess[s1].chassis_no[1]

(* C3: a batch holding a chassis that is already in the ledger, or one     *)
(* chassis twice, fails as a whole and leaves no row behind; no two        *)
(* VehicleMaster rows ever share a chassis number, also when two sessions  *)
(* import overlapping batches.                                             *)
DuplicateIn(batch, rows) ==
    \/ \E k \in 1..Len(batch) : \E i \in 1..Len(rows) : rows[i].chassis_no = batch[k]
    \/ \E k, m \in 1..Len(batch) : k # m /\ batch[k] = batch[m]

C3_OneRowPerChassis ==
    \A i, j \in Rows : i # j => vehicles[i].chassis_no # vehicles[j].chassis_no

C3_BatchFailsAsAWhole ==
    \A s \in Sessions :
        (sess[s].op = "create_inbound" /\ sess[s].pc = "commit" /\ SessionCommit(s))
        => IF DuplicateIn(sess[s].chassis_no, vehicles)
           THEN ~sess'[s].ok /\ vehicles' = vehicles /\ txns' = txns
           ELSE sess'[s].ok /\ Len(vehicles') = Len(vehicles) + Len(sess[s].chassis_no)

C4_LinkIsTwoSided ==
    \A i \in Rows : \A s \in SaleIds :
        (vehicles[i].sale_id = s) <=> (sales[s].chassis_no = vehicles[i].chassis_no)


(* C5: transfer moves a vehicle only when it is In Stock at from_branch;   *)
(* after a successful transfer every listed vehicle is at to_branch, still *)
(* In Stock and without a sale; no other vehicle changes its location.     *)
Available(i, from) ==
    vehicles[i].status = "In Stock" /\ vehicles[i].current_branch_id = from

Listed(list) == { list[k] : k \in 1..Len(list) }

TransferPost(from, to, cs) ==
    /\ Len(vehicles') = Len(vehicles)
    /\ \A i \in Rows :
          IF ret'.ok /\ vehicles[i].chassis_no \in cs
          THEN /\ Available(i, from)
               /\ vehicles'[i].current_branch_id = to
               /\ vehicles'[i].status = "In Stock"
               /\ vehicles'[i].sale_id = NoId
          ELSE vehicles'[i] = vehicles[i]
    /\ ret'.ok => \A c \in cs : \E i \in Rows : vehicles[i].chassis_no = c

C5_TransferStep ==
    (ret'.op = "transfer" /\ calls' = calls + 1) =>
        IF ret'.ok
        THEN /\ \A f \in Branches : \A t \in Branches \ {f}, l \in ChassisLists :
                   Transfer(f, t, l) => TransferPost(f, t, Listed(l))
             /\ \A f \in Branches : \A t \in Branches \ {f}, c \in Chassis \cup {"C9"} :
                   TransferOne(f, t, c) => TransferPost(f, t, {c})
        ELSE vehicles' = vehicles

C5_TransferOnlyInStock == [][C5_TransferStep]_vars

C5_Witness ==
    /\ ret.op = "transfer" /\ ret.ok
    /\ \E i \in Rows : /\ vehicles[i].current_branch_id = "B2"
                       /\ vehicles[i].status = "In Stock"
                       /\ vehicles[i].dc_number = "R1"
    /\ \E i \in Rows : vehicles[i].status # "In Stock"

(* C6: a transfer with a chassis that is unknown, not In Stock or not at    *)
(* from_branch raises, and vehicles, sales and the transaction log are as   *)
(* before the call, also for the chassis listed before the failing one.     *)
(* Stated by cases on the outcome: a transfer that did not succeed raised   *)
(* and changed nothing; a transfer that succeeded had no invalid chassis.   *)
Valid(c, from) == \E i \in Rows : vehicles[i].chassis_no = c /\ Available(i, from)

C6_TransferStep ==
    (ret'.op = "transfer" /\ calls' = calls + 1) =>
        IF ret'.ok
        THEN /\ \A f \in Branches : \A t \in Branches \ {f}, l \in ChassisLists :
                   Transfer(f, t, l) => \A k \in 1..Len(l) : Valid(l[k], f)
             /\ \A f \in Branches : \A t \in Branches \ {f}, c \in Chassis \cup {"C9"} :
                   TransferOne(f, t, c) => Valid(c, f)
        ELSE ret'.raised /\ UNCHANGED <<vehicles, sales, txns>>

C6_TransferAllOrNothing == [][C6_TransferStep]_vars

C6_Witness ==
    /\ ret.op = "transfer" /\ ret.raised /\ ~ret.ok
    /\ \E i \in Rows : /\ vehicles[i].status = "In Stock"
                       /\ vehicles[i].current_branch_id = HeadBranch
                       /\ vehicles[i].dc_number = NULL
    /\ \A k \in 1..Len(txns) : txns[k].Transaction_Type = INWARD_OEM

(* C7: every completed movement of one vehicle adds exactly two rows to    *)
(* the log, an outward row at the source (To = destination) and an inward  *)
(* row at the destination (From = source), with the same date, the         *)
(* vehicle's model, variant and colour and quantity 1; a transfer that     *)
(* fails adds no row.                                                      *)
Moved == { i \in Rows : vehicles'[i].current_branch_id # vehicles[i].current_branch_id }

NewTxns == SubSeq(txns', Len(txns) + 1, Len(txns'))

PairOf(o, n, veh, from, to) ==
    /\ o.Transaction_Type = OUTWARD_TRANSFER /\ n.Transaction_Type = INWARD_TRANSFER
    /\ o.Current_Branch_ID = from /\ o.To_Branch_ID = to
    /\ n.Current_Branch_ID = to /\ n.From_Branch_ID = from
    /\ o.Date = n.Date
    /\ o.Model = veh.model /\ o.Variant = veh.variant /\ o.Color = veh.color
    /\ n.Model = veh.model /\ n.Variant = veh.variant /\ n.Color = veh.color
    /\ o.Quantity = 1 /\ n.Quantity = 1

C7_TransferStep ==
    (ret'.op = "transfer" /\ calls' = calls + 1) =>
        IF ret'.ok
        THEN /\ Len(NewTxns) = 2 * Cardinality(Moved)
             /\ \A i \in Moved : \E k \in 1..Len(NewTxns) - 1 :
                   /\ k % 2 = 1
                   /\ PairOf(NewTxns[k], NewTxns[k + 1], vehicles[i],
                             vehicles[i].current_branch_id, vehicles'[i].current_branch_id)
        ELSE txns' = txns

C7_TwoRowsPerMovement == [][C7_TransferStep]_vars

(* the row of chassis c, 0 when the ledger has none *)
RowOf(c) == First({ i \in Rows : vehicles[i].chassis_no = c })

(* the vehicle is what the sale asks for: model and variant up to letter   *)
(* case, colour as written                                                 *)
Matches(i, s) ==
    /\ Upper(vehicles[i].model) = Upper(sales[s].Model)
    /\ Upper(vehicles[i].variant) = Upper(sales[s].Variant)
    /\ vehicles[i].color = sales[s].Paint_Color

InStockFor(s, c) ==
    /\ s \in SaleIds
    /\ RowOf(c) # 0
    /\ vehicles[RowOf(c)].status = "In Stock"

AnyCompletePdi(a) == CompletePdi(a[1], a[2], a[3]) \/ SvcCompletePdi(a[1], a[2], a[3])

(* C8: complete_pdi on an existing sale and a matching In Stock vehicle     *)
(* returns success and commits status Allotted and sale_id on the vehicle, *)
(* chassis_no, PDI Complete and a completion timestamp on the sale.        *)
C8_Linked(s, c) ==
    LET i == RowOf(c)
    IN /\ ret'.ok
       /\ vehicles'[i].status = "Allotted"
       /\ vehicles'[i].sale_id = s
       /\ sales'[s].chassis_no = c
       /\ sales'[s].fulfillment_status = "PDI Complete"
       /\ sales'[s].pdi_completion_date = today

C8_CompleteStep ==
    (ret'.op = "complete_pdi" /\ calls' = calls + 1) =>
        \A a \in PdiArgs :
            (InStockFor(a[1], a[2]) /\ Matches(RowOf(a[2]), a[1]) /\ AnyCompletePdi(a))
                => C8_Linked(a[1], a[2])

C8_CompletePdiLinks == [][C8_CompleteStep]_vars

C8_Witness ==
    /\ ret.op = "complete_pdi" /\ ret.ok /\ ret.msg = "linked"
    /\ \E i \in Rows : \E s \in SaleIds :
          /\ vehicles[i].status = "Allotted" /\ vehicles[i].sale_id = s
          /\ sales[s].chassis_no = vehicles[i].chassis_no
          /\ sales[s].fulfillment_status = "PDI Complete"
          /\ sales[s].pdi_completion_date # NoId

(* C9: complete_pdi on an In Stock vehicle whose model or variant (letter   *)
(* case aside) or colour differs from the sale's request returns failure    *)
(* with a mismatch message and changes neither the vehicle nor the sale; a *)
(* vehicle that differs in letter case only is accepted.                   *)
C9_CompleteStep ==
    (ret'.op = "complete_pdi" /\ calls' = calls + 1) =>
        \A a \in PdiArgs :
            (InStockFor(a[1], a[2]) /\ AnyCompletePdi(a))
                => IF Matches(RowOf(a[2]), a[1])
                   THEN ret'.ok
                   ELSE /\ ~ret'.ok /\ ret'.msg = "Mismatch"
                        /\ vehicles' = vehicles /\ sales' = sales

C9_MismatchRejected == [][C9_CompleteStep]_vars

(* C10: complete_pdi called again for a vehicle already linked to the same *)
(* sale succeeds, leaves the vehicle's status and sale_id and the sale's   *)
(* chassis_no as they were, links no other vehicle or sale and adds no     *)
(* ledger or transaction-log row.                                          *)
AlreadyLinked(s, c) ==
    /\ s \in SaleIds
    /\ RowOf(c) # 0
    /\ vehicles[RowOf(c)].status # "In Stock"
    /\ vehicles[RowOf(c)].sale_id = s

C10_CompleteStep ==
    (ret'.op = "complete_pdi" /\ calls' = calls + 1) =>
        \A a \in PdiArgs :
            (AlreadyLinked(a[1], a[2]) /\ AnyCompletePdi(a))
                => /\ ret'.ok
                   /\ vehicles' = vehicles
                   /\ txns' = txns
                   /\ \A s \in SaleIds : sales'[s].chassis_no = sales[s].chassis_no
                   /\ \A s \in SaleIds \ {a[1]} : sales'[s] = sales[s]

C10_CompletePdiIdempotent == [][C10_CompleteStep]_vars

C10_Witness ==
    /\ ret.op = "complete_pdi" /\ ret.ok /\ ret.msg = "already allotted"
    /\ \E i \in Rows : \E s \in SaleIds :
          /\ vehicles[i].status = "Allotted" /\ vehicles[i].sale_id = s
          /\ sales[s].chassis_no = vehicles[i].chassis_no

(* C11: complete_pdi on a vehicle that is not In Stock and whose sale_id is *)
(* not the given one returns a conflict failure that names the sale the     *)
(* vehicle is linked to, and changes no vehicle and no sale.                *)
LinkedElsewhere(s, c) ==
    /\ s \in SaleIds
    /\ RowOf(c) # 0
    /\ vehicles[RowOf(c)].status # "In Stock"
    /\ vehicles[RowOf(c)].sale_id # s

C11_CompleteStep ==
    (ret'.op = "complete_pdi" /\ calls' = calls + 1) =>
        \A a \in PdiArgs :
            (LinkedElsewhere(a[1], a[2]) /\ AnyCompletePdi(a))
                => /\ ~ret'.ok
                   /\ ret'.msg = "linked to another sale"
                   /\ ret'.linked_to = vehicles[RowOf(a[2])].sale_id
                   /\ vehicles' = vehicles /\ sales' = sales /\ txns' = txns

C11_ConflictChangesNothing == [][C11_CompleteStep]_vars

C11_Witness ==
    /\ ret.op = "complete_pdi" /\ ~ret.ok /\ ret.msg = "linked to another sale"
    /\ ret.linked_to \in SaleIds
    /\ \E i \in Rows : vehicles[i].status = "Allotted" /\ vehicles[i].sale_id = ret.linked_to

(* C12: a sale's fulfillment_status never moves to a status earlier in the *)
(* order PDI Pending, PDI In Progress, PDI Complete, Insurance Done,       *)
(* TR Done than the one it has.                                            *)
Rank(status) ==
    CASE status = "PDI Pending" -> 1
      [] status = "PDI In Progress" -> 2
      [] status = "PDI Complete" -> 3
      [] status = "Insurance Done" -> 4
      [] status = "TR Done" -> 5

C12_SaleStep ==
    \A s \in SaleIds :
        Rank(sales'[s].fulfillment_status) >= Rank(sales[s].fulfillment_status)

C12_StatusOnlyForward == [][C12_SaleStep]_vars

(* C13: assign takes effect only on a sale that is PDI Pending, setting    *)
(* the mechanic and PDI In Progress; on a sale in any other status the     *)
(* call fails and the sale's mechanic and status stay as they were (a      *)
(* retry with the mechanic already assigned may succeed, changing nothing).*)
C13_AssignStep ==
    (ret'.op = "assign" /\ calls' = calls + 1) =>
        \A s \in SaleIds, m \in Mechanics :
            Assign(s, m) =>
                IF sales[s].fulfillment_status = "PDI Pending"
                THEN /\ ret'.ok
                     /\ sales'[s].pdi_assigned_to = m
                     /\ sales'[s].fulfillment_status = "PDI In Progress"
                ELSE /\ sales'[s].pdi_assigned_to = sales[s].pdi_assigned_to
                     /\ sales'[s].fulfillment_status = sales[s].fulfillment_status
                     /\ ret'.ok => /\ sales[s].fulfillment_status = "PDI In Progress"
                                   /\ sales[s].pdi_assigned_to = m

C13_AssignOnlyWhenPending == [][C13_AssignStep]_vars

(* C14: every change of a vehicle's status is In Transit -> In Stock,       *)
(* In Stock -> Allotted or Allotted -> Sold; no vehicle leaves the ledger.  *)
StatusEdges ==
    { <<"In Transit", "In Stock">>, <<"In Stock", "Allotted">>, <<"Allotted", "Sold">> }

C14_VehicleStep ==
    /\ Len(vehicles') >= Len(vehicles)
    /\ \A i \in Rows :
          /\ vehicles'[i].chassis_no = vehicles[i].chassis_no
          /\ vehicles'[i].status # vehicles[i].status
                => <<vehicles[i].status, vehicles'[i].status>> \in StatusEdges

C14_StatusEdgesOnly == [][C14_VehicleStep]_vars

(* C15: receive_load(branch, load) turns every In Transit vehicle of that  *)
(* load at that branch into In Stock with date_received = the day of the   *)
(* call and adds exactly one inward-from-OEM row per such vehicle; every   *)
(* other vehicle is unchanged.                                             *)
InLoad(i, b, l) ==
    /\ vehicles[i].current_branch_id = b
    /\ vehicles[i].load_reference_number = l
    /\ vehicles[i].status = "In Transit"

Triples == { <<vehicles[i].model, vehicles[i].variant, vehicles[i].color>> : i \in Rows }

C15_ReceivePost(b, l) ==
    LET load == { i \in Rows : InLoad(i, b, l) }
    IN /\ ret'.ok
       /\ Len(vehicles') = Len(vehicles)
       /\ \A i \in Rows :
             IF i \in load
             THEN vehicles'[i] = [vehicles[i] EXCEPT !.status = "In Stock",
                                                    !.date_received = today]
             ELSE vehicles'[i] = vehicles[i]
       /\ Len(NewTxns) = Cardinality(load)
       /\ \A k \in 1..Len(NewTxns) :
             /\ NewTxns[k].Transaction_Type = INWARD_OEM
             /\ NewTxns[k].Current_Branch_ID = b
             /\ NewTxns[k].Load_Number = l
             /\ NewTxns[k].Date = today
             /\ NewTxns[k].Quantity = 1
       /\ \A t \in Triples :
             Cardinality({ k \in 1..Len(NewTxns) :
                 <<NewTxns[k].Model, NewTxns[k].Variant, NewTxns[k].Color>> = t })
             = Cardinality({ i \in load :
                 <<vehicles[i].model, vehicles[i].variant, vehicles[i].color>> = t })
       /\ SubSeq(txns', 1, Len(txns)) = txns

C15_ReceiveStep ==
    (ret'.op = "receive_load" /\ calls' = calls + 1) =>
        \A l \in Loads :
            ((\E i \in Rows : InLoad(i, HeadBranch, l)) /\ ReceiveLoad(HeadBranch, l))
                => C15_ReceivePost(HeadBranch, l)

C15_ReceiveRoundTrip == [][C15_ReceiveStep]_vars

C15_Witness ==
    /\ ret.op = "receive_load" /\ ret.ok
    /\ \E i \in Rows : /\ vehicles[i].status = "In Stock"
                       /\ vehicles[i].date_received = 2
    /\ Len(txns) = Cardinality({ i \in Rows : vehicles[i].status = "In Stock" })
    /\ \A k \in 1..Len(txns) : txns[k].Source_External = "HMSI (Transit Received)"

(* C16: receive_load for a branch and load with no In Transit vehicle      *)
(* returns a not-found failure, changes no vehicle and adds no             *)
(* transaction; a second receive_load of a load adds nothing.              *)
C16_ReceiveStep ==
    (ret'.op = "receive_load" /\ calls' = calls + 1) =>
        \A l \in Loads :
            ((~\E i \in Rows : InLoad(i, HeadBranch, l)) /\ ReceiveLoad(HeadBranch, l))
                => /\ ~ret'.ok /\ ~ret'.raised
                   /\ ret'.msg = "No In Transit vehicles"
                   /\ UNCHANGED <<vehicles, sales, txns>>

C16_ReceiveNotFound == [][C16_ReceiveStep]_vars

C16_Witness ==
    /\ ret.op = "receive_load" /\ ~ret.ok
    /\ \E k \in 1..Len(txns) : txns[k].Source_External = "HMSI (Transit Received)"
    /\ \A i \in Rows : vehicles[i].status = "In Stock"
    /\ Len(txns) = Len(vehicles)

(* C17: a successful create_inbound appends one VehicleMaster row per batch *)
(* item, at the target branch and with the given initial status; with In    *)
(* Stock it appends one inward row of quantity 1 per vehicle, with In       *)
(* Transit it appends no transaction.                                       *)
C17_InboundPost(batch, b, initial_status) ==
    /\ Len(vehicles') = Len(vehicles) + Len(batch)
    /\ SubSeq(vehicles', 1, Len(vehicles)) = vehicles
    /\ \A k \in 1..Len(batch) :
          LET row == vehicles'[Len(vehicles) + k]
          IN /\ row.chassis_no = batch[k].chassis_no
             /\ row.model = batch[k].model /\ row.variant = batch[k].variant
             /\ row.color = batch[k].color
             /\ row.status = initial_status
             /\ row.current_branch_id = b
             /\ row.sale_id = NoId
    /\ SubSeq(txns', 1, Len(txns)) = txns
    /\ IF initial_status = "In Stock"
       THEN /\ Len(NewTxns) = Len(batch)
            /\ \A k \in 1..Len(batch) :
                  /\ NewTxns[k].Transaction_Type = INWARD_OEM
                  /\ NewTxns[k].Current_Branch_ID = b
                  /\ NewTxns[k].Quantity = 1
                  /\ NewTxns[k].Model = batch[k].model
                  /\ NewTxns[k].Variant = batch[k].variant
                  /\ NewTxns[k].Color = batch[k].color
       ELSE txns' = txns

C17_InboundStep ==
    (ret'.op = "create_inbound" /\ calls' = calls + 1 /\ ret'.ok) =>
        /\ \A batch \in TransitBatches :
              SaveTransit(batch, HeadBranch) => C17_InboundPost(batch, HeadBranch, "In Transit")
        /\ \A batch \in CsvBatches :
              SubmitCsv(batch, HeadBranch, "L1") => C17_InboundPost(batch, HeadBranch, "In Stock")
        /\ \A batch \in MgrBatches :
              MgrSubmitCsv(batch, HeadBranch, "L1") => C17_InboundPost(batch, HeadBranch, "In Stock")

C17_InboundRows == [][C17_InboundStep]_vars

C17_Witness ==
    /\ ret.op = "create_inbound" /\ ret.ok
    /\ \E i \in Rows : vehicles[i].status = "In Transit"
    /\ \E i \in Rows : vehicles[i].status = "In Stock"
    /\ Len(txns) = Cardinality({ i \in Rows : vehicles[i].status = "In Stock" })

(* the documented reasons for skipping a correction row, read off the      *)
(* tables as they are before the call ("none": the row is to be applied)   *)
RecentTransfer(veh, cutoff) ==
    \E k \in 1..Len(txns) :
        /\ txns[k].Date >= cutoff
        /\ txns[k].Transaction_Type \in {INWARD_TRANSFER, OUTWARD_TRANSFER}
        /\ txns[k].Current_Branch_ID = veh.current_branch_id
        /\ txns[k].Model = veh.model
        /\ txns[k].Variant = veh.variant

SkipReason(row, cutoff) ==
    IF RowOf(row.chassis_no) = 0 THEN "not found"
    ELSE IF RecentTransfer(vehicles[RowOf(row.chassis_no)], cutoff) THEN "recent transfer"
    ELSE IF vehicles[RowOf(row.chassis_no)].status \in {"Allotted", "Sold"} THEN "status"
    ELSE "none"

Skipped(batch, cutoff) == { k \in 1..Len(batch) : SkipReason(batch[k], cutoff) # "none" }

Applied(batch, cutoff) == { k \in 1..Len(batch) : SkipReason(batch[k], cutoff) = "none" }

(* the STOCK CORRECTION rows of this call for one vehicle *)
AuditRows(veh, to) ==
    { n \in 1..Len(NewTxns) :
        /\ NewTxns[n].Transaction_Type = STOCK_CORRECTION
        /\ NewTxns[n].Model = veh.model /\ NewTxns[n].Variant = veh.variant
        /\ NewTxns[n].Color = veh.color
        /\ NewTxns[n].From_Branch_ID = veh.current_branch_id
        /\ NewTxns[n].Current_Branch_ID = to
        /\ NewTxns[n].Date = today
        /\ NewTxns[n].Quantity = 1 }

(* the files of CorrectionBatches name every chassis at most once, apart   *)
(* from a repeated first row                                               *)
OncePerChassis(batch) ==
    \A k, m \in 1..Len(batch) : k # m => batch[k].chassis_no # batch[m].chassis_no

(* C18: a correction row is skipped when its chassis is not found, when a  *)
(* transfer row for the vehicle's model, variant and branch is dated on or *)
(* after cutoff_date, or when the vehicle is Allotted or Sold: the vehicle *)
(* is unchanged, no audit row is written for it and the reason is logged;  *)
(* the other rows are applied and the call reports success.                *)
C18_CorrectPost(batch, cutoff) ==
    LET w == bulk_correct_stock(Cur, batch, today, cutoff)
    IN /\ ret'.ok
       /\ Len(NewTxns) = Cardinality(Applied(batch, cutoff))
       /\ \A k \in Skipped(batch, cutoff) :
             LET i == RowOf(batch[k].chassis_no)
             IN /\ i # 0 => vehicles'[i] = vehicles[i]
                /\ i # 0 => AuditRows(vehicles[i], batch[k].current_branch_id) = {}
                /\ \E n \in 1..Len(w.error_log) :
                      w.error_log[n] = <<SkipReason(batch[k], cutoff), batch[k].chassis_no>>
       /\ \A k \in Applied(batch, cutoff) :
             vehicles'[RowOf(batch[k].chassis_no)].current_branch_id
                 = batch[k].current_branch_id

C18_CorrectStep ==
    (ret'.op = "correct" /\ calls' = calls + 1) =>
        \A c \in CorrectionCalls :
            (OncePerChassis(c[1]) /\ Skipped(c[1], c[2]) # {} /\ Correct(c[1], c[2]))
                => C18_CorrectPost(c[1], c[2])

C19_CorrectPost(batch, cutoff) ==
    \A k \in Applied(batch, cutoff) :
        LET i == RowOf(batch[k].chassis_no)
        IN /\ vehicles'[i] = [vehicles[i] EXCEPT
                                 !.current_branch_id = batch[k].current_branch_id]
           /\ Cardinality(AuditRows(vehicles[i], batch[k].current_branch_id)) = 1

C19_CorrectStep ==
    (ret'.op = "correct" /\ calls' = calls + 1) =>
        \A c \in CorrectionCalls :
            (OncePerChassis(c[1]) /\ Applied(c[1], c[2]) # {} /\ Correct(c[1], c[2]))
                => C19_CorrectPost(c[1], c[2])

C19_CorrectApplies == [][C19_CorrectStep]_vars

C19_Witness ==
    /\ ret.op = "correct" /\ ret.ok
    /\ \E i \in Rows : vehicles[i].status = "In Stock" /\ vehicles[i].current_branch_id = "B2"
    /\ \E k \in 1..Len(txns) :
          /\ txns[k].Transaction_Type = STOCK_CORRECTION
          /\ txns[k].From_Branch_ID = "B1" /\ txns[k].Current_Branch_ID = "B2"
    /\ \A k \in 1..Len(txns) : txns[k].Transaction_Type \in {STOCK_CORRECTION, INWARD_OEM}

(* C20: the updated count is the number of rows applied, the skipped count *)
(* is the number of rows skipped for any of the documented reasons, and    *)
(* the log holds one entry per skipped row.                                *)
C20_CorrectStep ==
    (ret'.op = "correct" /\ calls' = calls + 1) =>
        \A c \in CorrectionCalls :
            (OncePerChassis(c[1]) /\ Correct(c[1], c[2]))
                => LET w == bulk_correct_stock(Cur, c[1], today, c[2])
                   IN /\ w.update_count = Cardinality(Applied(c[1], c[2]))
                      /\ w.skip_count = Cardinality(Skipped(c[1], c[2]))
                      /\ Len(w.error_log) = Cardinality(Skipped(c[1], c[2]))

C20_CorrectCounts == [][C20_CorrectStep]_vars

(* C21: a flag update that leaves is_tr_done set puts the sale in TR Done;  *)
(* one that leaves is_insurance_done set with is_tr_done unset puts it in   *)
(* Insurance Done; a flag update that leaves is_insurance_done set turns    *)
(* the Allotted vehicle linked to the sale to Sold; and the status of a     *)
(* vehicle sold through its sale is never changed again.                    *)
C21_FlagsPost(s) ==
    /\ sales'[s].is_tr_done => sales'[s].fulfillment_status = "TR Done"
    /\ (sales'[s].is_insurance_done /\ ~sales'[s].is_tr_done)
          => sales'[s].fulfillment_status = "Insurance Done"
    /\ sales'[s].is_insurance_done =>
          \A i \in Rows :
              (vehicles[i].sale_id = s /\ vehicles[i].status = "Allotted")
                  => vehicles'[i].status = "Sold"

C21_FlagsStep ==
    /\ (ret'.op = "update_flags" /\ calls' = calls + 1) =>
          \A s \in SaleIds, u \in FlagUpdates : UpdateFlags(s, u) => C21_FlagsPost(s)
    /\ \A i \in Rows :
          (vehicles[i].status = "Sold" /\ vehicles[i].sale_id # NoId)
              => vehicles'[i].status = "Sold"

C21_FlagsDriveTerminalStages == [][C21_FlagsStep]_vars

(* C22: whenever a transfer commits while a complete_pdi on the same        *)
(* chassis runs in another session, the vehicles it moves and logs are In   *)
(* Stock at from_branch at the time of the commit, and a vehicle that is    *)
(* Allotted is never moved to another branch.                               *)
C22_CommitStep ==
    /\ \A s, p \in Sessions :
          ( /\ sess[s].pc = "commit" /\ sess[s].op = "transfer"
            /\ sess[p].op = "complete_pdi" /\ sess[p].chassis_no = sess[s].chassis_no
            /\ SessionCommit(s) )
              => IF \A k \in 1..Len(sess[s].chassis_no) :
                        Valid(sess[s].chassis_no[k], HeadBranch)
                 THEN TRUE
                 ELSE vehicles' = vehicles /\ txns' = txns
    /\ \A i \in Rows :
          vehicles[i].status = "Allotted"
              => vehicles'[i].current_branch_id = vehicles[i].current_branch_id

C22_TransferVsCompletePdi == [][C22_CommitStep]_vars

(* C23: complete_pdi for a sale id that matches no SalesRecord fails with   *)
(* the sale-not-found message; for an existing sale and a chassis that no   *)
(* vehicle has it fails with another message, which names the chassis; in   *)
(* both cases no vehicle, sale or transaction row changes.                  *)
C23_CompleteStep ==
    (ret'.op = "complete_pdi" /\ calls' = calls + 1) =>
        \A a \in PdiArgs :
            ((a[1] \notin SaleIds \/ RowOf(a[2]) = 0) /\ AnyCompletePdi(a))
                => /\ ~ret'.ok
                   /\ UNCHANGED <<vehicles, sales, txns>>
                   /\ IF a[1] \notin SaleIds
                      THEN ret'.msg = "Sales Record not found"
                      ELSE /\ ret'.msg = "Chassis not found"
                           /\ ret'.named = a[2]

C23_AbsencesDistinct == [][C23_CompleteStep]_vars

C23_Witness ==
    /\ ret.op = "complete_pdi" /\ ~ret.ok
    /\ ret.msg = "Chassis not found" /\ ret.named = "C9"
    /\ Len(vehicles) > 0

(* C24: a complete_pdi that links an In Stock vehicle copies onto the sale  *)
(* the engine number supplied by the caller when one is supplied, and the   *)
(* vehicle's stored engine number when none is.                             *)
C24_CompleteStep ==
    (ret'.op = "complete_pdi" /\ calls' = calls + 1 /\ ret'.ok) =>
        \A a \in PdiArgs :
            ( /\ a[1] \in SaleIds /\ RowOf(a[2]) # 0
              /\ vehicles[RowOf(a[2])].status = "In Stock"
              /\ AnyCompletePdi(a) )
                => sales'[a[1]].engine_no =
                      IF a[3] # NULL THEN a[3] ELSE vehicles[RowOf(a[2])].engine_no

C24_EngineNumberPreferred == [][C24_CompleteStep]_vars

(* C25: assign_pdi_mechanic and update_insurance_tr_status called with a    *)
(* sale id that matches no SalesRecord report a failure: the call raises or *)
(* returns an error.                                                        *)
C25_UnknownSaleStep ==
    (ret'.op \in {"assign", "update_flags"} /\ calls' = calls + 1) =>
        \A s \in SaleArgs \ SaleIds :
            /\ \A m \in Mechanics : Assign(s, m) => (ret'.raised \/ ~ret'.ok)
            /\ \A u \in FlagUpdates : UpdateFlags(s, u) => (ret'.raised \/ ~ret'.ok)

C25_UnknownSaleReported == [][C25_UnknownSaleStep]_vars

(* the lines of an attachment that are at least 180 characters long and    *)
(* have 'B' at offset 25, and the j-th of them                             *)
Qualifying(content) ==
    { k \in 1..Len(content) : Len(content[k]) >= 180 /\ content[k][26] = "B" }

Nth(q, j) == CHOOSE k \in q : Cardinality({ i \in q : i < k }) = j - 1

(* what is written in the columns a .. b-1 of a line, blanks left out *)
Written(line, a, b) ==
    Text(SelectSeq(SubSeq(line, a + 1, Min(b, Len(line))), LAMBDA c : c # " "))

(* C26: the decoder returns one record for every line that is at least 180 *)
(* characters long with 'B' at offset 25, in the order of the lines, and   *)
(* none for another line; the record of a line carries what the line holds *)
(* in its load, chassis and engine columns, the empty string for blanks.   *)
C26_DecoderYield ==
    out.op = "decode" =>
        LET content == feed[out.file]
            batch == out.batch
            q == Qualifying(content)
        IN /\ Len(batch) = Cardinality(q)
           /\ \A j \in 1..Len(batch) :
                 LET line == content[Nth(q, j)]
                 IN /\ batch[j].load_reference = Written(line, 84, 97)
                    /\ batch[j].chassis_no = Written(line, 113, 130)
                    /\ batch[j].engine_no = Written(line, 173, 186)

C26_Witness ==
    /\ out.op = "decode"
    /\ \E k \in 1..Len(feed[out.file]) : Len(feed[out.file][k]) = 179
    /\ Len(out.batch) = 1
    /\ out.batch[1].chassis_no = "C1"

(* C27: the decoder keeps every record line whatever its codes: a model    *)
(* and variant code pair of the product mapping gives the mapped names,    *)
(* another pair the raw codes; a colour code of the colour table gives the *)
(* table's name, another colour code itself.                               *)
Mapped(m_code, v_code) ==
    { r \in ProductMapping :
        Written(r.model_code, 0, 11) = m_code /\ Written(r.variant_code, 0, 7) = v_code }

C27_DecoderFallback ==
    out.op = "decode" =>
        LET content == feed[out.file]
            batch == out.batch
            color_map == out.color_map
            q == Qualifying(content)
        IN /\ Len(batch) = Cardinality(q)
           /\ \A j \in 1..Len(batch) :
                 LET line == content[Nth(q, j)]
                     m_code == Written(line, 27, 38)
                     v_code == Written(line, 38, 45)
                     c_code == Written(line, 45, 60)
                 IN /\ IF Mapped(m_code, v_code) # {}
                       THEN \E r \in Mapped(m_code, v_code) :
                               /\ batch[j].model = r.real_model
                               /\ batch[j].variant = r.real_variant
                       ELSE /\ batch[j].model = m_code
                            /\ batch[j].variant = v_code
                    /\ batch[j].color = IF c_code \in DOMAIN color_map
                                        THEN color_map[c_code] ELSE c_code

C27_Witness ==
    /\ out.op = "decode"
    /\ out.color_map = ColorTable
    /\ Len(out.batch) = 2
    /\ out.batch[1].model = "M1" /\ out.batch[1].color = "RED"
    /\ out.batch[2].model = "K9" /\ out.batch[2].variant = "V9"
    /\ out.batch[2].color = "X9"

(* C28: a scan returns no vehicle of a load whose reference is in the       *)
(* ledger, no save of scanned vehicles fails on a duplicate chassis, and no *)
(* chassis ever has two rows, however scans and saves of one mailbox        *)
(* follow each other.                                                       *)
C28_ScanSaveStep ==
    /\ (ret'.op = "scan" /\ calls' = calls) =>
          \A j \in 1..Len(scanned') : \A i \in Rows :
              vehicles[i].load_reference_number # scanned'[j].load_reference
    /\ (ret'.op = "create_inbound" /\ calls' = calls + 1) =>
          (ret'.ok /\ ret'.msg # "IntegrityError")
    /\ \A i, j \in 1..Len(vehicles') :
          i # j => vehicles'[i].chassis_no # vehicles'[j].chassis_no

C28_ImportIdempotent == [][C28_ScanSaveStep]_vars

(* C29: the aging report lists every In Stock vehicle of the branch once,  *)
(* n whole days after its date_received, in band 0-30 for 0 <= n <= 30, in *)
(* 31-60 for 31 <= n <= 60, in 61-90 for 61 <= n <= 90 and in 90+ for      *)
(* n > 90.                                                                 *)
Band(n) ==
    CASE 0 <= n /\ n <= 30 -> "0-30 Days"
      [] 31 <= n /\ n <= 60 -> "31-60 Days"
      [] 61 <= n /\ n <= 90 -> "61-90 Days"
      [] n > 90 -> "90+ Days (Critical)"

C29_AgingBands ==
    out.op = "aging" =>
        \A i \in Rows :
            (/\ vehicles[i].status = "In Stock"
             /\ out.branch_id # NULL => vehicles[i].current_branch_id = out.branch_id)
            => /\ Cardinality({ k \in 1..Len(out.df) :
                                  out.df[k].chassis_no = vehicles[i].chassis_no }) = 1
               /\ \A k \in 1..Len(out.df) :
                     out.df[k].chassis_no = vehicles[i].chassis_no
                         => out.df[k].Age_Bucket = Band(out.now - vehicles[i].date_received)

(* C30: the head-branch query returns exactly the branches that are no      *)
(* row's Sub_Branch_ID, a branch without sub-branches included.             *)
C30_HeadBranches ==
    out.op = "get_head_branches" =>
        out.value = { b \in out.branches :
                        \A h \in out.hierarchy : h.Sub_Branch_ID # b }

(* C31: the transaction log is append-only: every step of every operation   *)
(* leaves each row the log already holds in its place with every field as  *)
(* it was, so the log before the step is a prefix of the log after it.      *)
C31_LogStep ==
    /\ Len(txns') >= Len(txns)
    /\ \A k \in 1..Len(txns) : txns'[k] = txns[k]

C32_OneVehiclePerSale ==
    \A i, j \in Rows :
        (vehicles[i].sale_id # NoId /\ vehicles[i].sale_id = vehicles[j].sale_id)
            => i = j

(* the summed Quantity of the log rows of the given types at branch b *)
RECURSIVE QtySum(_, _, _)
QtySum(k, b, types) ==
    IF k = 0 THEN 0
    ELSE QtySum(k - 1, b, types)
         + (IF txns[k].Current_Branch_ID = b /\ txns[k].Transaction_Type \in types
            THEN txns[k].Quantity ELSE 0)

OnHand(b) ==
    Cardinality({ i \in Rows : /\ vehicles[i].current_branch_id = b
                               /\ vehicles[i].status # "In Transit" })

(* C33: as long as no correction has been applied, for every branch the    *)
(* number of vehicles located there that are not In Transit equals the     *)
(* summed quantity of the inward rows at the branch (from the OEM and from *)
(* transfers) minus the summed quantity of its outward-transfer rows.      *)
C33_LedgerReconciles ==
    (\A k \in 1..Len(txns) : txns[k].Transaction_Type # STOCK_CORRECTION) =>
        \A b \in Branches :
            OnHand(b) = QtySum(Len(txns), b, {INWARD_OEM, INWARD_TRANSFER})
                          - QtySum(Len(txns), b, {OUTWARD_TRANSFER})

(* the rows of the given type among the rows a step adds to the log *)
Added(type) == { k \in 1..Len(NewTxns) : NewTxns[k].Transaction_Type = type }

(* C34: a transfer call whose chassis_list names a chassis more than once   *)
(* moves that vehicle at most once and logs it at most once: the call adds *)
(* no more outward rows and no more inward rows than it moves vehicles.    *)
C34_TransferStep ==
    (ret'.op = "transfer" /\ calls' = calls + 1) =>
        \A f \in Branches : \A t \in Branches \ {f} : \A l \in ChassisLists :
            ( /\ \E j, k \in 1..Len(l) : j # k /\ l[j] = l[k]
              /\ Transfer(f, t, l) )
                => /\ Cardinality(Added(OUTWARD_TRANSFER)) <= Cardinality(Moved)
                   /\ Cardinality(Added(INWARD_TRANSFER)) <= Cardinality(Moved)

C34_RepeatedChassisOnce == [][C34_TransferStep]_vars

(* C35: when a session commits a receive_load while the other session has  *)
(* run or is running receive_load over the same In Transit vehicles, the   *)
(* commit adds one inward row for each vehicle it takes from In Transit to *)
(* In Stock and none for a vehicle that was already received.              *)
C35_CommitStep ==
    \A s, p \in Sessions :
        ( /\ s # p
          /\ sess[s].pc = "commit" /\ sess[s].op = "receive_load"
          /\ sess[p].op = "receive_load"
          /\ sess[s].chassis_no # <<>> /\ sess[p].chassis_no = sess[s].chassis_no
          /\ SessionCommit(s) )
            => /\ \A k \in 1..Len(sess[s].chassis_no) :
                      vehicles'[RowOf(sess[s].chassis_no[k])].status = "In Stock"
               /\ Len(NewTxns) =
                      Cardinality({ i \in Rows : /\ vehicles[i].status = "In Transit"
                                                 /\ vehicles'[i].status = "In Stock" })

C35_ConcurrentReceiveOnce == [][C35_CommitStep]_vars

(* C36: whenever a sale is in fulfillment_status TR Done, every vehicle     *)
(* linked to it has status Sold, in whatever order the insurance-done and  *)
(* TR-done flags were set.                                                  *)
C36_TrDoneMeansSold ==
    \A i \in Rows :
        ( /\ vehicles[i].sale_id \in SaleIds
          /\ sales[vehicles[i].sale_id].fulfillment_status = "TR Done" )
            => vehicles[i].status = "Sold"

(* C37: every sale whose fulfillment_status is PDI Complete, Insurance Done *)
(* or TR Done has a chassis_no that is not NULL and names a vehicle whose  *)
(* sale_id is that sale.                                                    *)
C37_PostPdiHasVehicle ==
    \A s \in SaleIds :
        sales[s].fulfillment_status \in {"PDI Complete", "Insurance Done", "TR Done"}
            => /\ sales[s].chassis_no # NULL
               /\ \E i \in Rows : /\ vehicles[i].chassis_no = sales[s].chassis_no
                                  /\ vehicles[i].sale_id = s

(* every chassis of the list is in the ledger, none is Sold and none is    *)
(* listed twice                                                            *)
Sellable(l) ==
    \A k \in 1..Len(l) :
        /\ RowOf(l[k]) # 0
        /\ vehicles[RowOf(l[k])].status # "Sold"
        /\ \A j \in 1..Len(l) : j # k => l[j] # l[k]

(* C38: a manual sub-branch sale of a list whose chassis all exist, are not *)
(* Sold and are listed once succeeds, turns each of them to Sold and adds   *)
(* one Sale row of quantity 1 per vehicle at the vehicle's branch, changing *)
(* nothing else; a sale of any other list fails and leaves every vehicle,   *)
(* sale and log row as it was.                                              *)
C38_SaleStep ==
    (ret'.op = "manual_sale" /\ calls' = calls + 1) =>
        \A l \in ChassisLists :
            ManualSale(l) =>
                IF Sellable(l)
                THEN /\ ret'.ok
                     /\ Len(vehicles') = Len(vehicles)
                     /\ \A i \in Rows :
                           vehicles'[i] =
                               IF \E k \in 1..Len(l) : RowOf(l[k]) = i
                               THEN [vehicles[i] EXCEPT !.status = "Sold"]
                               ELSE vehicles[i]
                     /\ Len(NewTxns) = Len(l)
                     /\ \A k \in 1..Len(l) :
                           LET veh == vehicles[RowOf(l[k])]
                           IN /\ NewTxns[k].Transaction_Type = SALE
                              /\ NewTxns[k].Quantity = 1
                              /\ NewTxns[k].Current_Branch_ID = veh.current_branch_id
                              /\ NewTxns[k].Model = veh.model
                              /\ NewTxns[k].Variant = veh.variant
                              /\ NewTxns[k].Color = veh.color
                     /\ sales' = sales
                ELSE /\ ~ret'.ok
                     /\ UNCHANGED <<vehicles, sales, txns>>

C38_ManualSaleAtomic == [][C38_SaleStep]_vars

(* a sale has failed on the second occurrence of a chassis after the loop  *)
(* had marked the first one Sold: no vehicle of the ledger is Sold and the *)
(* log has no Sale row                                                     *)
C38_Witness ==
    /\ ret.op = "manual_sale" /\ ~ret.ok /\ ret.msg = "already Sold"
    /\ Len(vehicles) > 0
    /\ \A i \in Rows : vehicles[i].status # "Sold"
    /\ \A k \in 1..Len(txns) : txns[k].Transaction_Type # SALE

FlagKeys == {"is_insurance_done", "is_tr_done", "has_double_tax", "has_dues"}

(* C39: a flag update of sale s with dictionary u changes on the sale only  *)
(* the flag fields that u names and fulfillment_status, on the vehicles     *)
(* only the status of a vehicle linked to s, and nothing else: the sale's   *)
(* branch, DC number, chassis_no, engine_no, mechanic and completion time,  *)
(* every other sale, every other vehicle and the log stay as they were.     *)
C39_FlagsStep ==
    (ret'.op = "update_flags" /\ calls' = calls + 1) =>
        \A s \in SaleIds, u \in UpdateDicts :
            UpdateFlags(s, u) =>
                /\ \A f \in DOMAIN sales[s] :
                      f \notin ((FlagKeys \cap DOMAIN u) \cup {"fulfillment_status"})
                          => sales'[s][f] = sales[s][f]
                /\ \A t \in SaleIds \ {s} : sales'[t] = sales[t]
                /\ Len(vehicles') = Len(vehicles)
                /\ \A i \in Rows :
                      vehicles'[i] =
                          IF vehicles[i].sale_id = s
                          THEN [vehicles[i] EXCEPT !.status = vehicles'[i].status]
                          ELSE vehicles[i]
                /\ txns' = txns

C39_FlagsFrame == [][C39_FlagsStep]_vars
====
